---- MODULE Spec2Model ----
(***************************************************************************)
(* lss: recursive directory sizes with a persistent binary cache.          *)
(*                                                                         *)
(* Two parts of src/main.rs are modelled:                                  *)
(*   - FileInfo::calculate_directory_size, the recursive traversal, as a   *)
(*     machine with an explicit call stack, driven by main's loop over the *)
(*     top-level entries (specification Spec, FairSpec);                   *)
(*   - save_cache / load_cache, the binary codec, byte by byte             *)
(*     (specification CodecSpec).                                          *)
(*                                                                         *)
(* A u64 is kept at its full width as four 16-bit limbs, least significant *)
(* first, so that u64::MAX, saturation, wrap-around and the eight bytes    *)
(* written to the file are those of the program.                           *)
(***************************************************************************)
EXTENDS Integers, Sequences, FiniteSets, TLC

(***************************************************************************)
(* 64-bit unsigned arithmetic                                              *)
(***************************************************************************)
LimbBase == 256 * 256

u64_ZERO == <<0, 0, 0, 0>>

u64_MAX == <<LimbBase - 1, LimbBase - 1, LimbBase - 1, LimbBase - 1>>

\* The u64 of a small natural number (below 2^31).
U64(n) == <<n % LimbBase, n \div LimbBase, 0, 0>>

\* a + b with the carry out of bit 63 as a fifth element.
AddCarry(a, b) ==
    LET s1 == a[1] + b[1]
        s2 == a[2] + b[2] + (s1 \div LimbBase)
        s3 == a[3] + b[3] + (s2 \div LimbBase)
        s4 == a[4] + b[4] + (s3 \div LimbBase)
    IN  <<s1 % LimbBase, s2 % LimbBase, s3 % LimbBase, s4 % LimbBase, s4 \div LimbBase>>

Low64(w) == <<w[1], w[2], w[3], w[4]>>

wrapping_add(a, b) == Low64(AddCarry(a, b))

saturating_add(a, b) ==
    LET w == AddCarry(a, b) IN IF w[5] > 0 THEN u64_MAX ELSE Low64(w)

\* a <= b on u64.
LessEq(a, b) ==
    \/ a[4] < b[4]
    \/ a[4] = b[4] /\ a[3] < b[3]
    \/ a[4] = b[4] /\ a[3] = b[3] /\ a[2] < b[2]
    \/ a[4] = b[4] /\ a[3] = b[3] /\ a[2] = b[2] /\ a[1] <= b[1]

\* a * c for a small factor c (at most 1024), the overflow above bit 63 as a
\* fifth element.
MulSmall(a, c) ==
    LET p1 == a[1] * c
        p2 == a[2] * c + (p1 \div LimbBase)
        p3 == a[3] * c + (p2 \div LimbBase)
        p4 == a[4] * c + (p3 \div LimbBase)
    IN  <<p1 % LimbBase, p2 % LimbBase, p3 % LimbBase, p4 % LimbBase, p4 \div LimbBase>>

\* a * c^k, as [value |-> the product modulo 2^64, overflow |-> whether the
\* product exceeds u64::MAX].  The factors are at least 1, so the product
\* overflows exactly when one of the k steps does.
RECURSIVE MulPow(_, _, _)
MulPow(a, c, k) ==
    IF k = 0 THEN [value |-> a, overflow |-> FALSE]
    ELSE LET w == MulSmall(a, c)
             r == MulPow(Low64(w), c, k - 1)
         IN  [value |-> r.value, overflow |-> r.overflow \/ w[5] > 0]

\* u64::to_string: the decimal digits as ASCII bytes.
DivMod10(a) ==
    LET t4 == a[4]
        t3 == (t4 % 10) * LimbBase + a[3]
        t2 == (t3 % 10) * LimbBase + a[2]
        t1 == (t2 % 10) * LimbBase + a[1]
    IN  [q |-> <<t1 \div 10, t2 \div 10, t3 \div 10, t4 \div 10>>, r |-> t1 % 10]

RECURSIVE Digits(_)
Digits(a) ==
    IF a = u64_ZERO THEN <<>>
    ELSE LET d == DivMod10(a) IN Append(Digits(d.q), 48 + d.r)

to_string(a) == IF a = u64_ZERO THEN <<48>> ELSE Digits(a)

\* u64::to_le_bytes / u64::from_le_bytes.
u64_to_le_bytes(a) ==
    <<a[1] % 256, a[1] \div 256, a[2] % 256, a[2] \div 256,
      a[3] % 256, a[3] \div 256, a[4] % 256, a[4] \div 256>>

u64_from_le_bytes(b) ==
    <<b[1] + 256 * b[2], b[3] + 256 * b[4], b[5] + 256 * b[6], b[7] + 256 * b[8]>>

\* u16::to_le_bytes / u16::from_le_bytes.
u16_to_le_bytes(n) == <<n % 256, (n \div 256) % 256>>

u16_from_le_bytes(b) == b[1] + 256 * b[2]

(***************************************************************************)
(* Strings, cache records and cache keys                                   *)
(***************************************************************************)
\* A Rust String is its UTF-8 bytes: a sequence of numbers 0..255.

\* SizeUnit, with its u16 tag (enum SizeUnit, to_u16).
SizeUnits ==
    {"Bytes", "Kilobytes", "Megabytes", "Gigabytes", "Terabytes",
     "Kibibytes", "Mebibytes", "Gibibytes", "Tebibytes"}

to_u16(unit) ==
    CASE unit = "Bytes" -> 1
      [] unit = "Kilobytes" -> 2
      [] unit = "Megabytes" -> 3
      [] unit = "Gigabytes" -> 4
      [] unit = "Terabytes" -> 5
      [] unit = "Kibibytes" -> 257
      [] unit = "Mebibytes" -> 258
      [] unit = "Gibibytes" -> 259
      [] unit = "Tebibytes" -> 260

\* SizeUnit::from_u16(value).unwrap_or(SizeUnit::Bytes)
from_u16_or_Bytes(value) ==
    IF \E u \in SizeUnits : to_u16(u) = value
    THEN CHOOSE u \in SizeUnits : to_u16(u) = value
    ELSE "Bytes"

CacheEntry(size, inode, device_id, size_unit) ==
    [size |-> size, inode |-> inode, device_id |-> device_id, size_unit |-> size_unit]

\* HashMap::insert on the cache, a function from keys to entries.
CacheInsert_keepsOld(c, key, entry) ==
    [k \in (DOMAIN c) \cup {key} |-> IF k \in DOMAIN c THEN c[k] ELSE entry]

CacheInsert(c, key, entry) ==
    [k \in (DOMAIN c) \cup {key} |-> IF k = key THEN entry ELSE c[k]]

EmptyCache == [k \in {} |-> 0]

\* The multiplication of the cache-hit match: entry.size * factor, as
\* [value, overflow].
ScaledSize(entry) ==
    CASE entry.size_unit = "Bytes" -> [value |-> entry.size, overflow |-> FALSE]
      [] entry.size_unit = "Kilobytes" -> MulPow(entry.size, 1000, 1)
      [] entry.size_unit = "Megabytes" -> MulPow(entry.size, 1000, 2)
      [] entry.size_unit = "Gigabytes" -> MulPow(entry.size, 1000, 3)
      [] entry.size_unit = "Terabytes" -> MulPow(entry.size, 1000, 4)
      [] entry.size_unit = "Kibibytes" -> MulPow(entry.size, 1024, 1)
      [] entry.size_unit = "Mebibytes" -> MulPow(entry.size, 1024, 2)
      [] entry.size_unit = "Gibibytes" -> MulPow(entry.size, 1024, 3)
      [] entry.size_unit = "Tebibytes" -> MulPow(entry.size, 1024, 4)

\* format!("{:x}", Sha256(..)): 64 lower-case hex characters.  The digest is
\* taken to be collision-free and is modelled by an injective map into the
\* 64-character hex strings: the hashed decimal digits, padded with 'f'.
Sha256Hex(input) == input \o [i \in 1..(64 - Len(input)) |-> 102]

(***************************************************************************)
(* The filesystem the program scans                                        *)
(***************************************************************************)
\* Objects are named by strings.  R, C and D are directories; a, b and d are
\* regular files.  A directory entry is a hard link to an object (for a
\* directory: its ordinary entry, or a second appearance of it such as a bind
\* mount) or a symbolic link that resolves to an object.
Dirs == {"R", "C", "D"}

Files == {"a", "b", "d"}

Objects == Dirs \cup Files

Link(o) == [kind |-> "link", target |-> o]

Symlink(o) == [kind |-> "symlink", target |-> o]

\* An entry whose DirEntry cannot be read, and one whose metadata cannot.
ErrEntry == [kind |-> "err_entry", target |-> ""]

ErrMeta == [kind |-> "err_meta", target |-> ""]

\* An entry for directory o whose metadata can be read and whose FileInfo
\* cannot be built: o is gone by the time FileInfo::new asks again.
ErrNew(o) == [kind |-> "err_new", target |-> o]

\* The elements of s at the positions in I, in order.
RECURSIVE Pick(_, _, _)
Pick(s, I, i) ==
    IF i > Len(s) THEN <<>>
    ELSE (IF i \in I THEN <<s[i]>> ELSE <<>>) \o Pick(s, I, i + 1)

\* The entries a directory always has, and those it may have.
FixedEntries(o) ==
    CASE o = "R" -> <<Link("a")>>
      [] o = "C" -> <<Link("d")>>
      [] o = "D" -> <<Link("b")>>

OptionalEntries(o) ==
    CASE o = "R" -> <<Link("b"), Link("C"), Symlink("R"), Symlink("D")>>
      [] o = "C" -> <<Link("D"), Symlink("R"), Link("C")>>
      [] o = "D" -> <<Symlink("C"), ErrMeta>>

EntryLists(o) ==
    {FixedEntries(o) \o Pick(OptionalEntries(o), I, 1) :
        I \in SUBSET (1..Len(OptionalEntries(o)))}

\* st_ino and st_dev of each object.  R is inode 2 or inode 1 of device 23:
\* (1, 23) and C's (12, 3) have the same concatenated decimal string.
IdentityMaps ==
    {[o \in Objects |->
        CASE o = "R" -> <<r, U64(23)>>
          [] o = "C" -> <<U64(12), U64(3)>>
          [] o = "D" -> <<U64(7), U64(3)>>
          [] o = "a" -> <<U64(101), U64(3)>>
          [] o = "b" -> <<U64(102), U64(3)>>
          [] o = "d" -> <<U64(103), U64(3)>>] : r \in {U64(2), U64(1)}}

\* st_size: of a directory, its own block; of "a", small or u64::MAX - 50, so
\* that a + d is exactly u64::MAX and a + b exceeds it.
HugeLen == <<LimbBase - 51, LimbBase - 1, LimbBase - 1, LimbBase - 1>>

FileLens ==
    {[o \in Objects |->
        CASE o \in Dirs -> U64(4096)
          [] o = "a" -> la
          [] o = "b" -> U64(200)
          [] o = "d" -> U64(50)] : la \in {U64(100), HugeLen}}

\* The sets of directories whose read_dir fails.
UnlistableSets == {{}, {"C"}}

\* Every shape of the tree, with ordinary or huge lengths, C listable or
\* not, and R's ordinary or colliding identity.
TreeFileSystems ==
    {[entries |-> [o \in Dirs |-> CASE o = "R" -> r [] o = "C" -> c [] o = "D" -> d],
      len |-> v.len,
      unlistable |-> v.unlistable,
      id |-> v.id,
      top |-> <<"R", "C">>] :
        r \in EntryLists("R"), c \in EntryLists("C"), d \in EntryLists("D"),
        v \in [len : FileLens, unlistable : UnlistableSets, id : IdentityMaps]}

\* Runs of entries of R that fail, of 1, 5, 6 and 7 entries.
FailingRuns ==
    LET five == <<ErrEntry, ErrMeta, ErrNew("D"), ErrMeta, ErrEntry>>
    IN  {<<ErrMeta>>, five, five \o <<ErrNew("D")>>, five \o <<ErrMeta, ErrEntry>>}

\* The trees in which R holds a, a run of failing entries, then b, and C
\* or not.
FailingFileSystems ==
    {[entries |-> [o \in Dirs |->
                     CASE o = "R" -> <<Link("a")>> \o run \o <<Link("b")>> \o last
                       [] o = "C" -> <<Link("d")>>
                       [] o = "D" -> <<Link("b")>>],
      len |-> CHOOSE l \in FileLens : l["a"] = U64(100),
      unlistable |-> {},
      id |-> CHOOSE m \in IdentityMaps : m["R"][1] = U64(2),
      top |-> <<"R", "C">>] :
        run \in FailingRuns, last \in {<<>>, <<Link("C")>>}}

\* The trees in which R holds a, symbolic links to the file b and to the
\* directory D and, or not, a dangling one; C holds d and a link to it.
SymlinkFileSystems ==
    {[entries |-> [o \in Dirs |->
                     CASE o = "R" -> <<Link("a"), Symlink("b"), Symlink("D")>> \o last
                       [] o = "C" -> <<Link("d"), Symlink("d")>>
                       [] o = "D" -> <<Link("b")>>],
      len |-> CHOOSE l \in FileLens : l["a"] = U64(100),
      unlistable |-> {},
      id |-> CHOOSE m \in IdentityMaps : m["R"][1] = U64(2),
      top |-> <<"R", "C">>] :
        last \in {<<>>, <<Symlink("")>>, <<Symlink(""), Link("C")>>}}

FileSystems == TreeFileSystems \cup FailingFileSystems \cup SymlinkFileSystems

(***************************************************************************)
(* State                                                                   *)
(***************************************************************************)
VARIABLES
    fs,               \* the filesystem being scanned (it does not change)
    recalculate,      \* -rc
    ignore_symlinks,  \* --ignore-symlinks
    cache,            \* Cache = HashMap<String, CacheEntry>
    cache_loaded,     \* the cache as load_cache returned it at start
    visited_inodes,   \* HashSet<(u64, u64)> of the current top-level call
    stack,            \* the active calls of calculate_directory_size
    callee,           \* the FileInfo a call is about to run on
    pc,               \* where the program is
    top_idx,          \* main's position in the top-level entries
    files,            \* main's files: the FileInfo records pushed so far
    ret,              \* the most recent return of calculate_directory_size
    log,              \* the warnings logged so far
    cache_more,       \* how many further records the cache holds, each
                      \* under a 64-character key of its own, that the
                      \* model does not spell out
    file,             \* the cache file on disk
    pos,              \* load_cache's read position in the file
    corrupted_entries,\* load_cache's corruption counter
    saved,            \* what each save_cache so far wrote, and in which order
    damage,           \* what happened to the file since it was written
    calculate_dir_sizes, \* main's flag: directory sizes are asked for
    loads,            \* how many times load_cache has been called
    listing           \* the lines of the final listing printed so far

scanVars ==
    <<fs, recalculate, ignore_symlinks, calculate_dir_sizes, cache_loaded,
      visited_inodes, stack, callee, top_idx, files, ret>>

travVars == <<scanVars, log>>

codecVars ==
    <<cache_more, file, pos, corrupted_entries, saved, damage, loads, listing>>

vars == <<travVars, codecVars, cache, pc>>

(***************************************************************************)
(* FileInfo                                                                *)
(***************************************************************************)
\* FileInfo::new on the path of object o (the fields the traversal reads).
FileInfo_new(f, o) ==
    [obj |-> o, inode |-> f.id[o][1], size |-> f.len[o], is_directory |-> o \in Dirs]

\* st_ino and st_dev of an object of the scanned filesystem.
Inode(o) == fs.id[o][1]

Device(o) == fs.id[o][2]

get_device_id(self) == Device(self.obj)

\* get_cache_key, tabulated over the identities of the model's objects: the
\* hex digest of the decimal strings of inode and device id, concatenated.
Identities == {m[o] : m \in IdentityMaps, o \in Objects}

CacheKeyOf == [id \in Identities |-> Sha256Hex(to_string(id[1]) \o to_string(id[2]))]

get_cache_key(self) == CacheKeyOf[<<self.inode, get_device_id(self)>>]

\* The Result of fs::metadata / fs::symlink_metadata on an entry's path.
Metadata_follows(f, e, nofollow) ==
    CASE e.kind = "err_meta" -> [ok |-> FALSE]
      [] e.kind = "symlink" /\ e.target = "" -> [ok |-> FALSE]
      [] OTHER ->
            [ok |-> TRUE, is_dir |-> e.target \in Dirs, is_symlink |-> FALSE,
             obj |-> e.target, ino |-> f.id[e.target][1], dev |-> f.id[e.target][2],
             len |-> f.len[e.target]]

Metadata(f, e, nofollow) ==
    CASE e.kind = "err_meta" -> [ok |-> FALSE]
      [] e.kind = "symlink" /\ nofollow ->
            [ok |-> TRUE, is_dir |-> FALSE, is_symlink |-> TRUE, obj |-> "",
             ino |-> U64(900), dev |-> U64(3), len |-> U64(11)]
      [] e.kind = "symlink" /\ e.target = "" -> [ok |-> FALSE]
      [] OTHER ->
            [ok |-> TRUE, is_dir |-> e.target \in Dirs, is_symlink |-> FALSE,
             obj |-> e.target, ino |-> f.id[e.target][1], dev |-> f.id[e.target][2],
             len |-> f.len[e.target]]

Warning(kind, o) == [kind |-> kind, at |-> o]

\* The warning "{} additional errors in '{}'".
Rollup(o, n) == [kind |-> "rollup", at |-> o, count |-> n]

NoReturn == [obj |-> "", value |-> u64_ZERO, size |-> u64_ZERO, how |-> "none"]

\* The caches load_cache may hand to the scan: empty, or one record under
\* C's key left by an earlier run (stale, of another volume, in another unit,
\* or one whose scaling overflows).
SeedEntries ==
    {CacheEntry(U64(7), U64(12), U64(3), "Bytes"),
     CacheEntry(U64(7), U64(12), U64(9), "Bytes"),
     CacheEntry(U64(7), U64(12), U64(3), "Kibibytes"),
     CacheEntry(HugeLen, U64(12), U64(3), "Kilobytes")}

SeedKey == CacheKeyOf[<<U64(12), U64(3)>>]

InitialCaches ==
    {EmptyCache} \cup {CacheInsert(EmptyCache, SeedKey, e) : e \in SeedEntries}

\* The cache file: whether it exists, its bytes, and the count of further
\* whole records after them, the written form of cache_more.
NoFile == [exists |-> FALSE, data |-> <<>>, rest |-> 0]

NoDamage == [kind |-> "none", record |-> 0, value |-> 0]

\* The state when main enters its loop, load_cache having returned.
ScanInit(filesystems, caches) ==
    /\ fs \in filesystems
    /\ recalculate \in BOOLEAN
    /\ ignore_symlinks \in BOOLEAN
    /\ cache \in caches
    /\ cache_loaded = cache
    /\ visited_inodes = {}
    /\ stack = <<>>
    /\ callee = FileInfo_new(fs, fs.top[1])
    /\ pc = "main"
    /\ top_idx = 1
    /\ files = <<>>
    /\ ret = NoReturn
    /\ log = <<>>
    /\ cache_more = 0
    /\ file = NoFile
    /\ pos = 0
    /\ corrupted_entries = 0
    /\ saved = <<>>
    /\ damage = NoDamage
    /\ calculate_dir_sizes = TRUE
    /\ loads = 1
    /\ listing = <<>>

(***************************************************************************)
(* FileInfo::calculate_directory_size, one action per stretch of code      *)
(* between two calls or returns                                            *)
(***************************************************************************)
Top(stk) == stk[Len(stk)]

Pop(stk) == SubSeq(stk, 1, Len(stk) - 1)

\* `if error_count <= 5`: the failure is warned of in detail.
Detailed_always(error_count) == TRUE

Detailed(error_count) == error_count <= 5

\* Result::is_err of what a call returns: every return of the function is
\* one of the five `Ok(..)`, the tag naming which.
is_err_unlistable(how) == how = "unlistable"

is_err(how) == how \notin {"file", "cycle", "hit", "unlistable", "computed"}

\* The log after the caller has matched the Result: the Err arm of the
\* call site in the loop warns for the first five errors of the directory,
\* the Err arm in main warns.
CallerLog(base, stk, self, how) ==
    IF ~is_err(how) THEN base
    ELSE IF stk = <<>> THEN Append(base, Warning("calculate_top", self.obj))
    ELSE IF Detailed(Top(stk).error_count + 1)
    THEN Append(base, Warning("calculate", self.obj))
    ELSE base

\* The call on `self` returns Ok(value) to the callers in stk.  With no
\* caller left, main pushes the FileInfo and moves to the next top-level
\* entry; otherwise the caller's loop adds the value to its total, or in
\* its Err arm counts an error, and goes on to its next entry.
Return_dropsValue(stk, self, value, how) ==
    /\ ret' = [obj |-> self.obj, value |-> value, size |-> self.size, how |-> how]
    /\ IF stk = <<>>
       THEN /\ stack' = stk
            /\ files' = Append(files, self)
            /\ top_idx' = top_idx + 1
            /\ pc' = "main"
       ELSE /\ stack' = IF is_err(how)
                        THEN [stk EXCEPT ![Len(stk)].error_count = @ + 1,
                                         ![Len(stk)].idx = @ + 1]
                        ELSE [stk EXCEPT ![Len(stk)].idx = @ + 1]
            /\ pc' = "loop"
            /\ UNCHANGED <<files, top_idx>>

Return(stk, self, value, how) ==
    /\ ret' = [obj |-> self.obj, value |-> value, size |-> self.size, how |-> how]
    /\ IF stk = <<>>
       THEN /\ stack' = stk
            /\ files' = Append(files, self)
            /\ top_idx' = top_idx + 1
            /\ pc' = "main"
       ELSE /\ stack' = IF is_err(how)
                        THEN [stk EXCEPT ![Len(stk)].error_count = @ + 1,
                                         ![Len(stk)].idx = @ + 1]
                        ELSE [stk EXCEPT
                                ![Len(stk)].total_size = saturating_add(@, value),
                                ![Len(stk)].idx = @ + 1]
            /\ pc' = "loop"
            /\ UNCHANGED <<files, top_idx>>

\* The cycle guard: visited_inodes.insert and visited_inodes.remove.
Enter_forgets(visited, key) == visited

Enter(visited, key) == visited \cup {key}

Leave_keeps(visited, key) == visited

Leave(visited, key) == visited \ {key}

\* The cache-hit test of the call on self.
CacheHit_anyVolume(self, cache_key) ==
    /\ ~recalculate
    /\ cache_key \in DOMAIN cache

CacheHit_evenForced(self, cache_key) ==
    /\ cache_key \in DOMAIN cache
    /\ get_device_id(self) = cache[cache_key].device_id

CacheHit(self, cache_key) ==
    /\ ~recalculate
    /\ cache_key \in DOMAIN cache
    /\ get_device_id(self) = cache[cache_key].device_id

\* The recursion is native: the thread's stack holds at most MaxDepth
\* frames of the function, and one more aborts the process.
MaxDepth == 4

\* visited_inodes.contains: the test at the head of the function and the
\* test of a child directory in the loop.
contains_never(visited, key) == FALSE

contains(visited, key) == key \in visited

\* `if !self.is_directory { return Ok(self.size); }`: the value returned.
NonDirectorySize_zero(self) == u64_ZERO

NonDirectorySize(self) == self.size

\* fs::read_dir(&self.path) returns Err.
read_dir_fails_never(self) == FALSE

read_dir_fails(self) == self.obj \in fs.unlistable

\* From the entry of the function to the start of its loop.
Prologue ==
    /\ pc = "call"
    /\ LET self == callee
           current_key == <<self.inode, get_device_id(self)>>
           cache_key == get_cache_key(self)
           entered == Enter(visited_inodes, current_key)
       IN  IF ~self.is_directory
           THEN /\ Return(stack, self, NonDirectorySize(self), "file")
                /\ log' = CallerLog(log, stack, self, "file")
                /\ UNCHANGED <<visited_inodes, callee>>
           ELSE IF contains(visited_inodes, current_key)
           THEN /\ log' = CallerLog(Append(log, Warning("cycle", self.obj)),
                                     stack, self, "cycle")
                /\ Return(stack, self, u64_ZERO, "cycle")
                /\ UNCHANGED <<visited_inodes, callee>>
           ELSE IF CacheHit(self, cache_key)
           THEN LET scaled == ScaledSize(cache[cache_key])
                IN  \E overflow_checks \in BOOLEAN :
                        IF scaled.overflow /\ overflow_checks
                        THEN /\ pc' = "panic"
                             /\ visited_inodes' = entered
                             /\ UNCHANGED <<stack, files, top_idx, ret, log, callee>>
                        ELSE /\ visited_inodes' = Leave(entered, current_key)
                             /\ Return(stack, [self EXCEPT !.size = scaled.value],
                                       scaled.value, "hit")
                             /\ log' = CallerLog(log, stack, self, "hit")
                             /\ UNCHANGED callee
           ELSE IF read_dir_fails(self)
           THEN /\ log' = CallerLog(Append(log, Warning("read_dir", self.obj)),
                                     stack, self, "unlistable")
                /\ visited_inodes' = Leave(entered, current_key)
                /\ Return(stack, self, u64_ZERO, "unlistable")
                /\ UNCHANGED callee
           ELSE IF Len(stack) >= MaxDepth
           THEN /\ pc' = "stack_overflow"
                /\ visited_inodes' = entered
                /\ UNCHANGED <<stack, files, top_idx, ret, log, callee>>
           ELSE /\ visited_inodes' = entered
                /\ stack' = Append(stack, [self |-> self, idx |-> 1,
                                           total_size |-> u64_ZERO, error_count |-> 0])
                /\ pc' = "loop"
                /\ UNCHANGED <<files, top_idx, ret, log, callee>>
    /\ UNCHANGED <<fs, recalculate, ignore_symlinks, calculate_dir_sizes, cache,
                   cache_loaded, codecVars>>

\* One entry of the directory being listed.
LoopEntry ==
    /\ pc = "loop"
    /\ LET frame == Top(stack)
           self == frame.self
           entries == fs.entries[self.obj]
       IN  /\ frame.idx <= Len(entries)
           /\ LET entry == entries[frame.idx]
                  metadata == Metadata(fs, entry, ignore_symlinks)
                  next(f) == [f EXCEPT !.idx = @ + 1]
                  failed(kind) ==
                      /\ stack' = [stack EXCEPT ![Len(stack)] =
                                      next([frame EXCEPT !.error_count = @ + 1])]
                      /\ log' = IF Detailed(frame.error_count + 1)
                                THEN Append(log, Warning(kind, self.obj))
                                ELSE log
                      /\ UNCHANGED <<pc, callee>>
                  skip ==
                      /\ stack' = [stack EXCEPT ![Len(stack)] = next(frame)]
                      /\ UNCHANGED <<pc, callee, log>>
              IN  IF entry.kind = "err_entry" THEN failed("entry")
                  ELSE IF ~metadata.ok THEN failed("metadata")
                  ELSE IF metadata.is_dir
                  THEN IF metadata.ino = self.inode /\ metadata.dev = get_device_id(self)
                       THEN skip
                       ELSE IF contains(visited_inodes, <<metadata.ino, metadata.dev>>)
                       THEN skip
                       ELSE IF entry.kind = "err_new" THEN failed("file_info")
                       ELSE /\ callee' = FileInfo_new(fs, metadata.obj)
                            /\ pc' = "call"
                            /\ UNCHANGED <<stack, log>>
                  ELSE IF ignore_symlinks /\ metadata.is_symlink
                  THEN skip
                  ELSE /\ stack' = [stack EXCEPT ![Len(stack)] =
                                       next([frame EXCEPT !.total_size =
                                                saturating_add(@, metadata.len)])]
                       /\ UNCHANGED <<pc, callee, log>>
    /\ UNCHANGED <<fs, recalculate, ignore_symlinks, calculate_dir_sizes, cache,
                   cache_loaded, visited_inodes, top_idx, files, ret, codecVars>>

\* After the loop: the rollup warning, the cache record, the return.
Epilogue ==
    /\ pc = "loop"
    /\ LET frame == Top(stack)
           self == [frame.self EXCEPT !.size = frame.total_size]
           current_key == <<self.inode, get_device_id(self)>>
       IN  /\ frame.idx > Len(fs.entries[self.obj])
           /\ log' = CallerLog(IF frame.error_count > 5
                                THEN Append(log, Rollup(self.obj, frame.error_count - 5))
                                ELSE log,
                                Pop(stack), self, "computed")
           /\ cache' = CacheInsert(cache, get_cache_key(self),
                                   CacheEntry(frame.total_size, self.inode,
                                              get_device_id(self), "Bytes"))
           /\ visited_inodes' = Leave(visited_inodes, current_key)
           /\ Return(Pop(stack), self, frame.total_size, "computed")
    /\ UNCHANGED <<fs, recalculate, ignore_symlinks, calculate_dir_sizes, cache_loaded,
                   callee, codecVars>>

(***************************************************************************)
(* main's loop over the top-level entries                                  *)
(***************************************************************************)
\* `let mut visited_inodes = HashSet::new()`
HashSet_stale == {<<U64(2), U64(23)>>, <<U64(1), U64(23)>>}

HashSet_new == {}

MainLoop ==
    /\ pc = "main"
    /\ top_idx <= Len(fs.top)
    /\ LET file_info == FileInfo_new(fs, fs.top[top_idx])
       IN  IF calculate_dir_sizes /\ file_info.is_directory
           THEN /\ visited_inodes' = HashSet_new
                /\ callee' = file_info
                /\ pc' = "call"
                /\ UNCHANGED <<files, top_idx>>
           ELSE /\ files' = Append(files, file_info)
                /\ top_idx' = top_idx + 1
                /\ UNCHANGED <<visited_inodes, callee, pc>>
    /\ UNCHANGED <<fs, recalculate, ignore_symlinks, calculate_dir_sizes, cache,
                   cache_loaded, stack, ret, log, codecVars>>

MainDone ==
    /\ pc = "main"
    /\ top_idx > Len(fs.top)
    /\ pc' = "scanned"
    /\ UNCHANGED <<travVars, codecVars, cache>>

TravNext == MainLoop \/ Prologue \/ LoopEntry \/ Epilogue \/ MainDone

TravInit == ScanInit(FileSystems, InitialCaches)

Spec == TravInit /\ [][TravNext]_vars

\* The program is one thread: it runs until it exits.
\* FairSpec starts from ordinary file lengths and R's ordinary identity,
\* which decide no branch of the traversal, and from the caches whose
\* records are in bytes (scaling a record can abort the process).
FairInit ==
    ScanInit({f \in FileSystems : f.len["a"] = U64(100) /\ f.id["R"][1] = U64(2)},
             {c \in InitialCaches : \A k \in DOMAIN c : c[k].size_unit = "Bytes"})

FairSpec == FairInit /\ [][TravNext]_vars /\ WF_vars(TravNext)

\* calculate_directory_size as a function of any FileInfo and any set of
\* visited identities: the first call is made on a regular file or on a
\* directory, with a set that may already hold identities, the callee's
\* among them.  (main and the loop call it on directories only, with the
\* identities of the path.)
CallFileSystems ==
    {f \in TreeFileSystems :
        /\ f.len["a"] = U64(100) /\ f.id["R"][1] = U64(2) /\ f.unlistable = {}
        /\ f.entries["D"] = <<Link("b")>>}

CallInit ==
    /\ fs \in CallFileSystems
    /\ recalculate \in BOOLEAN
    /\ ignore_symlinks \in BOOLEAN
    /\ calculate_dir_sizes = TRUE
    /\ cache \in InitialCaches
    /\ cache_loaded = cache
    /\ visited_inodes \in SUBSET {fs.id[o] : o \in Dirs}
    /\ stack = <<>>
    /\ callee \in {FileInfo_new(fs, o) : o \in Objects}
    /\ pc = "call"
    /\ top_idx = 1
    /\ files = <<>>
    /\ ret = NoReturn
    /\ log = <<>>
    /\ cache_more = 0
    /\ file = NoFile
    /\ pos = 0
    /\ corrupted_entries = 0
    /\ saved = <<>>
    /\ damage = NoDamage
    /\ loads = 1
    /\ listing = <<>>

CallSpec == CallInit /\ [][TravNext]_vars

\* The scan started with a record for C of any unit, as load_cache may have
\* read it from the file: its size small, the greatest, or at the edge of
\* what the unit's factor leaves within 64 bits.
Magnitudes ==
    {U64(7), u64_MAX,
     <<42991, 19398, 35127, 65>>, <<42992, 19398, 35127, 65>>,
     <<65535, 65535, 65535, 63>>, <<0, 0, 0, 64>>,
     <<31128, 281, 0, 0>>, <<31129, 281, 0, 0>>,
     <<65535, 255, 0, 0>>, <<0, 256, 0, 0>>}

HitCaches ==
    {CacheInsert(EmptyCache, SeedKey, CacheEntry(m, U64(12), U64(3), u)) :
        m \in Magnitudes, u \in SizeUnits}

HitFileSystems == {f \in CallFileSystems : f.entries["C"] = <<Link("d")>>}

HitInit == ScanInit(HitFileSystems, HitCaches)

HitSpec == HitInit /\ [][TravNext]_vars

(***************************************************************************)
(* The cache file: save_cache and load_cache                               *)
(***************************************************************************)
\* String::from_utf8 succeeds on the bytes of b from position i on.
InRange(b, i, lo, hi) == i <= Len(b) /\ b[i] >= lo /\ b[i] <= hi

RECURSIVE from_utf8_ok(_, _)
from_utf8_ok(b, i) ==
    IF i > Len(b) THEN TRUE
    ELSE LET c == b[i]
             cont(j) == InRange(b, j, 128, 191)
         IN  CASE c <= 127 -> from_utf8_ok(b, i + 1)
               [] c >= 194 /\ c <= 223 -> cont(i + 1) /\ from_utf8_ok(b, i + 2)
               [] c = 224 ->
                    InRange(b, i + 1, 160, 191) /\ cont(i + 2) /\ from_utf8_ok(b, i + 3)
               [] (c >= 225 /\ c <= 236) \/ c = 238 \/ c = 239 ->
                    cont(i + 1) /\ cont(i + 2) /\ from_utf8_ok(b, i + 3)
               [] c = 237 ->
                    InRange(b, i + 1, 128, 159) /\ cont(i + 2) /\ from_utf8_ok(b, i + 3)
               [] c = 240 ->
                    /\ InRange(b, i + 1, 144, 191) /\ cont(i + 2) /\ cont(i + 3)
                    /\ from_utf8_ok(b, i + 4)
               [] c >= 241 /\ c <= 243 ->
                    /\ cont(i + 1) /\ cont(i + 2) /\ cont(i + 3)
                    /\ from_utf8_ok(b, i + 4)
               [] c = 244 ->
                    /\ InRange(b, i + 1, 128, 143) /\ cont(i + 2) /\ cont(i + 3)
                    /\ from_utf8_ok(b, i + 4)
               [] OTHER -> FALSE

\* The bytes save_cache writes for one entry.
WriteEntry_noPadding(key, entry) ==
    u16_to_le_bytes(Len(key)) \o key
        \o u64_to_le_bytes(entry.inode)
        \o u64_to_le_bytes(entry.size)
        \o u16_to_le_bytes(to_u16(entry.size_unit))
        \o u64_to_le_bytes(entry.device_id)

WriteEntry(key, entry) ==
    u16_to_le_bytes(Len(key)) \o key
        \o u64_to_le_bytes(entry.inode) \o <<0, 0>>
        \o u64_to_le_bytes(entry.size)
        \o u16_to_le_bytes(to_u16(entry.size_unit))
        \o u64_to_le_bytes(entry.device_id)

\* `key_bytes.len() > u16::MAX as usize`: the entry is skipped.
KeyTooLong_never(key_bytes) == FALSE

KeyTooLong(key_bytes) == Len(key_bytes) > 65535

\* The body of save_cache's for loop over the entries, taken in `order`:
\* the bytes written, and the warnings logged.
RECURSIVE WriteAll(_, _, _)
WriteAll(c, order, i) ==
    IF i > Len(order) THEN <<>>
    ELSE (IF KeyTooLong(order[i]) THEN <<>> ELSE WriteEntry(order[i], c[order[i]]))
            \o WriteAll(c, order, i + 1)

RECURSIVE WarnAll(_, _)
WarnAll(order, i) ==
    IF i > Len(order) THEN <<>>
    ELSE (IF KeyTooLong(order[i]) THEN <<Warning("key_too_long", "")>> ELSE <<>>)
            \o WarnAll(order, i + 1)

\* The orders in which a HashMap may hand out the keys in S.
Orders(S) ==
    {o \in [1..Cardinality(S) -> S] : \A i, j \in DOMAIN o : i # j => o[i] # o[j]}

\* The length of a written record whose key has n bytes.
RecordLen(n) == 2 + n + 8 + 2 + 8 + 2 + 8

\* metadata.len() of the cache file.
FileLen(f) == Len(f.data) + f.rest * RecordLen(64)

\* A process ends at most MaxSaves times in a behaviour.
MaxSaves == 2

\* save_cache is called between two steps of main, never from inside
\* load_cache or calculate_directory_size.
save_cache ==
    /\ pc \in {"start", "loaded", "main", "scanned"}
    /\ Len(saved) < MaxSaves
    /\ \E order \in Orders(DOMAIN cache) :
          /\ file' = [exists |-> TRUE, data |-> WriteAll(cache, order, 1),
                      rest |-> cache_more]
          /\ saved' = Append(saved, [cache |-> cache, more |-> cache_more,
                                     order |-> order])
          /\ log' = log \o WarnAll(order, 1)
    /\ pc' = "saved"
    /\ UNCHANGED <<scanVars, cache, cache_more, pos, corrupted_entries, damage, loads,
                   listing>>

\* The file a process wrote is damaged before the next one reads it: cut
\* short, a byte of a key overwritten, or a key-length field overwritten.
\* `record` is the position of the damaged record in the order of writing.
WrittenBefore(k) == WriteAll(saved[1].cache, SubSeq(saved[1].order, 1, k - 1), 1)

\* The offset in the file at which the k-th written record starts.
Offset(k) == Len(WrittenBefore(k))

KeyLengths == {0, 4097, 9000}

Truncate ==
    /\ pc = "saved"
    /\ Len(saved) = 1
    /\ damage.kind = "none"
    /\ file.rest = 0
    /\ \E n \in 0..(Len(file.data) - 1) :
          /\ file' = [file EXCEPT !.data = SubSeq(@, 1, n)]
          /\ damage' = [kind |-> "truncate", record |-> 0, value |-> n]
    /\ UNCHANGED <<travVars, cache, cache_more, pos, corrupted_entries, saved, pc, loads,
                   listing>>

CorruptKey ==
    /\ pc = "saved"
    /\ Len(saved) = 1
    /\ damage.kind = "none"
    /\ file.rest = 0
    /\ \E k \in 1..Len(saved[1].order) :
          /\ file' = [file EXCEPT !.data[Offset(k) + 3] = 255]
          /\ damage' = [kind |-> "bad_key", record |-> k, value |-> 255]
    /\ UNCHANGED <<travVars, cache, cache_more, pos, corrupted_entries, saved, pc, loads,
                   listing>>

SetKeyLen ==
    /\ pc = "saved"
    /\ Len(saved) = 1
    /\ damage.kind = "none"
    /\ file.rest = 0
    /\ \E k \in 1..Len(saved[1].order), v \in KeyLengths :
          /\ file' = [file EXCEPT !.data[Offset(k) + 1] = u16_to_le_bytes(v)[1],
                                  !.data[Offset(k) + 2] = u16_to_le_bytes(v)[2]]
          /\ damage' = [kind |-> "key_len", record |-> k, value |-> v]
    /\ UNCHANGED <<travVars, cache, cache_more, pos, corrupted_entries, saved, pc, loads,
                   listing>>

\* The ceiling on the cache file's length.
TooLarge_never(len) == FALSE

TooLarge(len) == len > 100 * 1024 * 1024

\* load_cache, up to its loop.  It runs when the process starts: the cache
\* and the log are new.
load_cache ==
    /\ pc \in {"start", "saved"}
    /\ cache' = EmptyCache
    /\ cache_more' = 0
    /\ pos' = 0
    /\ corrupted_entries' = 0
    /\ IF ~file.exists THEN pc' = "loaded" /\ log' = <<>>
       ELSE IF FileLen(file) = 0 THEN pc' = "loaded" /\ log' = <<>>
       ELSE IF TooLarge(FileLen(file))
       THEN pc' = "loaded" /\ log' = <<Warning("too_large", "")>>
       ELSE pc' = "loading" /\ log' = <<>>
    /\ loads' = loads + 1
    /\ UNCHANGED <<scanVars, file, saved, damage, listing>>

\* read_exact of n bytes at offset p succeeds, and what it reads.
ReadOk(p, n) == p + n <= Len(file.data)

ReadAt(p, n) == SubSeq(file.data, p + 1, p + n)

\* The position of the file after a read_exact of n bytes at offset p.
Consumed_stays(p, n) == p

Consumed(p, n) == p + n

BadKeyLen_never(key_len) == FALSE

BadKeyLen(key_len) == key_len = 0 \/ key_len > 4096

\* The loop is left by `break` with n corrupted entries counted: the
\* warning, and load_cache returns.
Break(n, p) ==
    /\ corrupted_entries' = n
    /\ pos' = p
    /\ log' = IF n > 0 THEN Append(log, Warning("corrupted", "")) ELSE log
    /\ pc' = "loaded"
    /\ UNCHANGED <<cache, cache_more>>

\* One iteration of load_cache's loop.  The records after the bytes of the
\* file are well-formed, and are read and inserted in one step.
LoadRecord ==
    /\ pc = "loading"
    /\ IF pos = Len(file.data) /\ file.rest > 0
       THEN /\ cache_more' = cache_more + file.rest
            /\ pos' = pos + file.rest * RecordLen(64)
            /\ UNCHANGED <<cache, corrupted_entries, log, pc>>
       ELSE IF ~ReadOk(pos, 2) THEN Break(corrupted_entries, Len(file.data))
       ELSE LET key_len == u16_from_le_bytes(ReadAt(pos, 2))
                p1 == Consumed(pos, 2)
                p2 == Consumed(p1, key_len)
                p3 == Consumed(p2, 10)
                p4 == Consumed(p3, 8)
                p5 == Consumed(p4, 2)
                key == ReadAt(p1, key_len)
                inode == u64_from_le_bytes(SubSeq(ReadAt(p2, 10), 1, 8))
                size == u64_from_le_bytes(ReadAt(p3, 8))
                size_unit == from_u16_or_Bytes(u16_from_le_bytes(ReadAt(p4, 2)))
                device_id == u64_from_le_bytes(ReadAt(p5, 8))
            IN  IF BadKeyLen(key_len) THEN Break(corrupted_entries + 1, p1)
                ELSE IF ~ReadOk(p1, key_len)
                THEN Break(corrupted_entries + 1, Len(file.data))
                ELSE IF ~from_utf8_ok(key, 1)
                THEN /\ corrupted_entries' = corrupted_entries + 1
                     /\ pos' = p2
                     /\ UNCHANGED <<cache, cache_more, log, pc>>
                ELSE IF ~ReadOk(p2, 10) \/ ~ReadOk(p3, 8) \/ ~ReadOk(p4, 2)
                        \/ ~ReadOk(p5, 8)
                THEN Break(corrupted_entries + 1, Len(file.data))
                ELSE /\ cache' = CacheInsert(cache, key,
                                             CacheEntry(size, inode, device_id, size_unit))
                     /\ pos' = Consumed(p5, 8)
                     /\ UNCHANGED <<cache_more, corrupted_entries, log, pc>>
    /\ UNCHANGED <<scanVars, file, saved, damage, loads, listing>>

\* The cache stores a process can hold when it ends: records under keys of
\* 1 to 4096 bytes of UTF-8, computed by the scan or loaded from a file.
KeyE == <<195, 169>>

KeyA == <<97>>

Stores ==
    {[k \in K |->
        CASE k = SeedKey -> CacheEntry(U64(350), U64(12), U64(3), "Bytes")
          [] k = KeyE -> CacheEntry(u64_MAX, u64_MAX, u64_MAX, u)
          [] k = KeyA -> CacheEntry(HugeLen, U64(258), U64(9), "Megabytes")] :
        K \in SUBSET {SeedKey, KeyE, KeyA}, u \in SizeUnits}

\* Counts of further records: a million of them fit under the ceiling.
ManyRecords == 1000000

TooManyRecords == 1200000

CodecInit ==
    /\ fs = CHOOSE f \in FileSystems : TRUE
    /\ recalculate = FALSE
    /\ ignore_symlinks = FALSE
    /\ cache \in Stores
    /\ cache_more \in {0, ManyRecords, TooManyRecords}
    /\ cache_loaded = EmptyCache
    /\ visited_inodes = {}
    /\ stack = <<>>
    /\ callee = FileInfo_new(fs, fs.top[1])
    /\ pc = "start"
    /\ top_idx = 1
    /\ files = <<>>
    /\ ret = NoReturn
    /\ log = <<>>
    /\ file = NoFile
    /\ pos = 0
    /\ corrupted_entries = 0
    /\ saved = <<>>
    /\ damage = NoDamage
    /\ calculate_dir_sizes = TRUE
    /\ loads = 0
    /\ listing = <<>>

CodecNext ==
    save_cache \/ Truncate \/ CorruptKey \/ SetKeyLen \/ load_cache \/ LoadRecord

CodecSpec == CodecInit /\ [][CodecNext]_vars

\* save_cache as a function of any Cache: a HashMap<String, CacheEntry> may
\* hold a key of any length, though get_cache_key makes keys of 64 bytes and
\* load_cache keeps keys of at most 4096.  LongKey has 65536 bytes.
LongKey == [i \in 1..(65535 + 1) |-> 97]

AnyStores ==
    {[k \in K |->
        CASE k = SeedKey -> CacheEntry(U64(350), U64(12), U64(3), "Bytes")
          [] k = LongKey -> CacheEntry(U64(7), U64(258), U64(9), u)
          [] k = KeyA -> CacheEntry(HugeLen, U64(258), U64(9), "Megabytes")] :
        K \in SUBSET {SeedKey, LongKey, KeyA}, u \in SizeUnits}

EncodeInit ==
    /\ fs = CHOOSE f \in FileSystems : TRUE
    /\ recalculate = FALSE
    /\ ignore_symlinks = FALSE
    /\ cache \in AnyStores
    /\ cache_more = 0
    /\ cache_loaded = EmptyCache
    /\ visited_inodes = {}
    /\ stack = <<>>
    /\ callee = FileInfo_new(fs, fs.top[1])
    /\ pc = "start"
    /\ top_idx = 1
    /\ files = <<>>
    /\ ret = NoReturn
    /\ log = <<>>
    /\ file = NoFile
    /\ pos = 0
    /\ corrupted_entries = 0
    /\ saved = <<>>
    /\ damage = NoDamage
    /\ calculate_dir_sizes = TRUE
    /\ loads = 0
    /\ listing = <<>>

EncodeNext == save_cache \/ load_cache \/ LoadRecord

EncodeSpec == EncodeInit /\ [][EncodeNext]_vars

(***************************************************************************)
(* One run of main: load_cache, the scan, save_cache                       *)
(***************************************************************************)
\* The cache file the run finds: none, or the file an earlier run wrote with
\* one record under C's key.
CacheFiles ==
    {NoFile} \cup
        {[exists |-> TRUE, data |-> WriteEntry(SeedKey, e), rest |-> 0] : e \in SeedEntries}

\* The filesystems of a run: ordinary lengths and identities, every
\* directory listable.
RunFileSystems ==
    {f \in TreeFileSystems :
        f.len["a"] = U64(100) /\ f.id["R"][1] = U64(2) /\ f.unlistable = {}}

RunInit ==
    /\ fs \in RunFileSystems
    /\ recalculate \in BOOLEAN
    /\ ignore_symlinks = FALSE
    /\ calculate_dir_sizes \in BOOLEAN
    /\ cache = EmptyCache
    /\ cache_loaded = EmptyCache
    /\ visited_inodes = {}
    /\ stack = <<>>
    /\ callee = FileInfo_new(fs, fs.top[1])
    /\ pc = "start"
    /\ top_idx = 1
    /\ files = <<>>
    /\ ret = NoReturn
    /\ log = <<>>
    /\ cache_more = 0
    /\ file \in CacheFiles
    /\ pos = 0
    /\ corrupted_entries = 0
    /\ saved = <<>>
    /\ damage = NoDamage
    /\ loads = 0
    /\ listing = <<>>

\* `let mut cache = load_cache(&logger)?`
MainLoad == pc = "start" /\ load_cache

\* load_cache has returned; main lists the current directory.
\* `fs::read_dir(current_dir)?` may fail, and main returns the error.
MainScan ==
    /\ pc = "loaded"
    /\ \E read_dir_ok \in BOOLEAN : pc' = IF read_dir_ok THEN "main" ELSE "error"
    /\ cache_loaded' = cache
    /\ UNCHANGED <<fs, recalculate, ignore_symlinks, calculate_dir_sizes, cache,
                   visited_inodes, stack, callee, top_idx, files, ret, log, codecVars>>

\* `if calculate_dir_sizes { save_cache(&cache, &logger)?; }`
MainSave_early == pc = "main" /\ calculate_dir_sizes /\ save_cache

\* save_cache returns Err: ensure_cache_dir or File::create fails and the
\* file is as it was, or a write_all fails and the file holds the bytes
\* written before it.
WriteCuts(data) == {0, Len(data) \div 2}

save_cache_fails ==
    /\ \/ UNCHANGED file
       \/ \E order \in Orders(DOMAIN cache) :
             \E n \in WriteCuts(WriteAll(cache, order, 1)) :
                file' = [exists |-> TRUE,
                         data |-> SubSeq(WriteAll(cache, order, 1), 1, n),
                         rest |-> 0]
    /\ pc' = "error"
    /\ UNCHANGED <<travVars, cache, cache_more, pos, corrupted_entries, saved, damage,
                   loads, listing>>

MainSave ==
    /\ pc = "scanned"
    /\ IF calculate_dir_sizes THEN save_cache \/ save_cache_fails
       ELSE pc' = "exit" /\ UNCHANGED <<travVars, codecVars, cache>>

\* `let entry = entry?`: the next top-level entry cannot be read, and main
\* returns the error.
MainAbort ==
    /\ pc = "main"
    /\ top_idx <= Len(fs.top)
    /\ pc' = "error"
    /\ UNCHANGED <<travVars, codecVars, cache>>

\* files.sort_by(|a, b| a.size.cmp(&b.size)): a stable sort.
RECURSIVE InsertBySize(_, _)
InsertBySize(sorted, f) ==
    IF sorted = <<>> THEN <<f>>
    ELSE IF f.size # sorted[Len(sorted)].size /\ LessEq(f.size, sorted[Len(sorted)].size)
    THEN Append(InsertBySize(SubSeq(sorted, 1, Len(sorted) - 1), f), sorted[Len(sorted)])
    ELSE Append(sorted, f)

RECURSIVE SortBySize(_, _)
SortBySize(fl, n) ==
    IF n = 0 THEN <<>> ELSE InsertBySize(SortBySize(fl, n - 1), fl[n])

\* The final listing: the header, one line for each file in the order of
\* the sort, and the total.
Lines(fl) ==
    <<[kind |-> "header"]>>
        \o [i \in 1..Len(fl) |-> [kind |-> "file", obj |-> fl[i].obj, size |-> fl[i].size]]
        \o <<[kind |-> "total", count |-> Len(fl)]>>

MainPrint_early ==
    /\ pc \in {"main", "scanned"}
    /\ listing' = Lines(SortBySize(files, Len(files)))
    /\ pc' = "done"
    /\ UNCHANGED <<travVars, cache, cache_more, file, pos, corrupted_entries, saved,
                   damage, loads>>

MainPrint ==
    /\ pc \in {"saved", "exit"}
    /\ listing' = Lines(SortBySize(files, Len(files)))
    /\ pc' = "done"
    /\ UNCHANGED <<travVars, cache, cache_more, file, pos, corrupted_entries, saved,
                   damage, loads>>

RunNext ==
    \/ MainLoad \/ LoadRecord \/ MainScan
    \/ MainLoop \/ MainAbort \/ Prologue \/ LoopEntry \/ Epilogue \/ MainDone
    \/ MainSave \/ MainPrint

RunSpec == RunInit /\ [][RunNext]_vars

(***************************************************************************)
(* A run of main on any cache file, and the load of the next run           *)
(***************************************************************************)
\* A count of records whose written form, 94 bytes each, is within one
\* record of the ceiling of 100 MiB.
NearCeiling == 1115506

\* A key of 4097 bytes.
OverlongKey == [i \in 1..(4096 + 1) |-> 97]

\* The cache files a run may find: none; files an earlier run wrote, with
\* keys of 1, 2 and 64 bytes, one of them just under the ceiling; and files
\* that no run wrote: a key-length field of 0 or of 4097, a key that is not
\* UTF-8 before a good record, a file cut inside a record.
AnyCacheFiles ==
    LET seed == CacheEntry(U64(7), U64(12), U64(3), "Bytes")
        other == CacheEntry(HugeLen, U64(258), U64(9), "Megabytes")
        bytes(d) == [exists |-> TRUE, data |-> d, rest |-> 0]
    IN  {NoFile,
         bytes(WriteEntry(SeedKey, seed)),
         bytes(WriteEntry(KeyA, other) \o WriteEntry(KeyE, seed)),
         bytes(WriteEntry(<<>>, seed)),
         bytes(WriteEntry(OverlongKey, seed)),
         bytes(WriteEntry(<<255>>, seed) \o WriteEntry(KeyA, other)),
         bytes(SubSeq(WriteEntry(KeyA, other) \o WriteEntry(SeedKey, seed), 1, 60)),
         [exists |-> TRUE, data |-> WriteEntry(SeedKey, seed), rest |-> NearCeiling - 1]}

\* The filesystems of the run: R holds a and, or not, C; C holds d and, or
\* not, D; D holds b.
ReloadFileSystems ==
    {f \in RunFileSystems :
        /\ f.entries["R"] \in {<<Link("a")>>, <<Link("a"), Link("C")>>}
        /\ f.entries["C"] \in {<<Link("d")>>, <<Link("d"), Link("D")>>}
        /\ f.entries["D"] = <<Link("b")>>}

ReloadInit ==
    /\ fs \in ReloadFileSystems
    /\ recalculate \in BOOLEAN
    /\ ignore_symlinks = FALSE
    /\ calculate_dir_sizes = TRUE
    /\ cache = EmptyCache
    /\ cache_loaded = EmptyCache
    /\ visited_inodes = {}
    /\ stack = <<>>
    /\ callee = FileInfo_new(fs, fs.top[1])
    /\ pc = "start"
    /\ top_idx = 1
    /\ files = <<>>
    /\ ret = NoReturn
    /\ log = <<>>
    /\ cache_more = 0
    /\ file \in AnyCacheFiles
    /\ pos = 0
    /\ corrupted_entries = 0
    /\ saved = <<>>
    /\ damage = NoDamage
    /\ loads = 0
    /\ listing = <<>>

\* The scan of the run, after its load_cache.
FirstScan == loads = 1 /\ MainScan

\* The run has ended; the next run's load_cache reads the file it wrote.
Reload == pc = "saved" /\ loads = 1 /\ load_cache

ReloadNext ==
    \/ MainLoad \/ LoadRecord \/ FirstScan
    \/ MainLoop \/ Prologue \/ LoopEntry \/ Epilogue \/ MainDone
    \/ MainSave \/ MainPrint \/ Reload

ReloadSpec == ReloadInit /\ [][ReloadNext]_vars

(***************************************************************************)
(* load_cache on any byte stream                                           *)
(***************************************************************************)
\* Streams: a record whose key is not UTF-8, a record with a 1-byte key, a
\* key-length field of 0 and a record with a 2-byte key.
BaseStream ==
    WriteEntry(<<255>>, CacheEntry(U64(7), U64(12), U64(3), "Bytes"))
        \o WriteEntry(KeyA, CacheEntry(HugeLen, U64(258), U64(9), "Megabytes"))
        \o <<0, 0>>
        \o WriteEntry(KeyE, CacheEntry(U64(7), U64(12), U64(3), "Kibibytes"))

\* The byte streams load_cache is run on: every piece of BaseStream, and
\* pieces with one byte set to 255.
ByteStreams ==
    LET n == Len(BaseStream)
        pieces == {SubSeq(BaseStream, i, j) : i \in {1, 3, 4, 32, 34, 63, 65}, j \in 0..n}
    IN  pieces \cup {[p EXCEPT ![k] = 255] : p \in {q \in pieces : Len(q) = n}, k \in {1, 2, 33}}

DecodeInit ==
    /\ fs = CHOOSE f \in FileSystems : TRUE
    /\ recalculate = FALSE
    /\ ignore_symlinks = FALSE
    /\ calculate_dir_sizes = TRUE
    /\ cache = EmptyCache
    /\ cache_loaded = EmptyCache
    /\ visited_inodes = {}
    /\ stack = <<>>
    /\ callee = FileInfo_new(fs, fs.top[1])
    /\ pc = "start"
    /\ top_idx = 1
    /\ files = <<>>
    /\ ret = NoReturn
    /\ log = <<>>
    /\ cache_more = 0
    /\ file \in {[exists |-> TRUE, data |-> d, rest |-> 0] : d \in ByteStreams}
    /\ pos = 0
    /\ corrupted_entries = 0
    /\ saved = <<>>
    /\ damage = NoDamage
    /\ loads = 0
    /\ listing = <<>>

DecodeNext == MainLoad \/ LoadRecord

\* load_cache is a loop of one thread: it goes on until it returns.
DecodeSpec == DecodeInit /\ [][DecodeNext]_vars /\ WF_vars(DecodeNext)

(***************************************************************************)
(* Reference values: sums over the filesystem, in unbounded arithmetic     *)
(***************************************************************************)
\* A wide number: four limbs and, fifth, the count of 2^64s.
WideOf(a) == <<a[1], a[2], a[3], a[4], 0>>

WideAdd(x, y) ==
    LET w == AddCarry(Low64(x), Low64(y))
    IN  <<w[1], w[2], w[3], w[4], x[5] + y[5] + w[5]>>

Clamp(w) == IF w[5] > 0 THEN u64_MAX ELSE Low64(w)

\* What the i-th entry of directory o leads to: nothing when the entry,
\* its metadata or its FileInfo cannot be read.
EntryMeta(o, i) ==
    LET e == fs.entries[o][i]
    IN  IF e.kind \in {"err_entry", "err_new"} THEN [ok |-> FALSE]
        ELSE Metadata(fs, e, ignore_symlinks)

\* The directories an entry of directory o leads into.
SubDirs(o) ==
    {EntryMeta(o, i).obj : i \in
        {j \in 1..Len(fs.entries[o]) :
            LET m == EntryMeta(o, j)
            IN  m.ok /\ m.is_dir}}

RECURSIVE Closure(_, _)
Closure(S, n) ==
    IF n = 0 THEN S ELSE Closure(S \cup UNION {SubDirs(x) : x \in S}, n - 1)

\* The directories below o, and o with them.
Below(o) == Closure(SubDirs(o), Cardinality(Dirs))

Reachable(o) == {o} \cup Below(o)

CycleFree(root) == \A x \in Reachable(root) : x \notin Below(x)

AllReadable(root) ==
    \A x \in Reachable(root) :
        /\ x \notin fs.unlistable
        /\ \A i \in 1..Len(fs.entries[x]) :
              EntryMeta(x, i).ok

\* The objects the entries of directory o lead to, from its i-th entry on,
\* one for each path to them.  Defined on cycle-free graphs.
RECURSIVE Visits(_, _)
Visits(o, i) ==
    IF i > Len(fs.entries[o]) THEN <<>>
    ELSE LET m == EntryMeta(o, i)
             here == IF ~m.ok \/ m.is_symlink THEN <<>>
                     ELSE IF m.is_dir THEN <<m.obj>> \o Visits(m.obj, 1)
                     ELSE <<m.obj>>
         IN  here \o Visits(o, i + 1)

\* A tree: no cycle, and no file or directory reached along two paths.
IsTree(root) ==
    /\ CycleFree(root)
    /\ LET v == Visits(root, 1)
       IN  \A i, j \in DOMAIN v : i # j => v[i] # v[j]

\* The byte lengths of all regular files reachable from directory o, from
\* its i-th entry on; symbolic links count as their targets unless
\* ignore_symlinks is set, and then not at all.  Defined on cycle-free trees.
RECURSIVE TreeSum(_, _)
TreeSum(o, i) ==
    IF i > Len(fs.entries[o]) THEN WideOf(u64_ZERO)
    ELSE LET m == EntryMeta(o, i)
             here == IF ~m.ok THEN WideOf(u64_ZERO)
                     ELSE IF m.is_dir THEN TreeSum(m.obj, 1)
                     ELSE IF m.is_symlink THEN WideOf(u64_ZERO)
                     ELSE WideOf(m.len)
         IN  WideAdd(here, TreeSum(o, i + 1))

\* The same sum along the paths that never come back to a directory they
\* went through: an entry leading to the directory itself or to one of
\* `above` counts nothing, and so does a directory that cannot be listed.
RECURSIVE PathSum(_, _, _)
PathSum(o, above, i) ==
    IF o \in fs.unlistable \/ i > Len(fs.entries[o]) THEN WideOf(u64_ZERO)
    ELSE LET m == EntryMeta(o, i)
             here == IF ~m.ok THEN WideOf(u64_ZERO)
                     ELSE IF m.is_dir
                     THEN IF m.obj \in above \cup {o} THEN WideOf(u64_ZERO)
                          ELSE PathSum(m.obj, above \cup {o}, 1)
                     ELSE IF m.is_symlink THEN WideOf(u64_ZERO)
                     ELSE WideOf(m.len)
         IN  WideAdd(here, PathSum(o, above, i + 1))

\* The entries of o, met along such paths, that lead back to o or above it.
RECURSIVE BackEdges(_, _, _)
BackEdges(o, above, i) ==
    IF o \in fs.unlistable \/ i > Len(fs.entries[o]) THEN 0
    ELSE LET m == EntryMeta(o, i)
             here == IF m.ok /\ m.is_dir
                     THEN IF m.obj \in above \cup {o} THEN 1
                          ELSE BackEdges(m.obj, above \cup {o}, 1)
                     ELSE 0
         IN  here + BackEdges(o, above, i + 1)

\* A top-level call has just returned to main; ret is its return.
TopReturned == pc \in {"main", "scanned"} /\ top_idx > 1

TopRoot == fs.top[top_idx - 1]

CycleWarnings == Len(SelectSeq(log, LAMBDA w : w.kind = "cycle"))

(***************************************************************************)
(* Claims about the traversal                                              *)
(***************************************************************************)
\* A top-level call has returned for a cycle-free tree in which every
\* directory can be listed and every entry's metadata read, and no record
\* of an earlier run was there to be hit.
C1_Case ==
    /\ TopReturned
    /\ recalculate \/ cache_loaded = EmptyCache
    /\ IsTree(TopRoot)
    /\ AllReadable(TopRoot)

\* C1 as stated: on a cycle-free, fully readable tree the size computed on a
\* miss equals the sum of the byte lengths of all regular files reachable
\* from the root, files behind symbolic links left out under ignore-symlinks.
C1_AdditivityExact == C1_Case => WideOf(ret.value) = TreeSum(TopRoot, 1)

\* C1 as amended: the size equals that sum when the sum fits in 64 bits, and
\* u64::MAX when it does not.
C1_AdditivityClamped == C1_Case => ret.value = Clamp(TreeSum(TopRoot, 1))

\* R holds a, b and C; C holds d: 100 + 200 + 50.
C1_Witness ==
    /\ C1_Case
    /\ ret.obj = "R"
    /\ ret.how = "computed"
    /\ cache_loaded = EmptyCache
    /\ fs.entries["R"] = <<Link("a"), Link("b"), Link("C")>>
    /\ fs.entries["C"] = <<Link("d")>>
    /\ ret.value = U64(350)

\* C2: on every filesystem graph, cyclic ones included, the scan comes to
\* its end, and a forced recomputation returns the sum along the paths that
\* never re-enter a directory they are inside: a branch leading back to an
\* ancestor adds nothing.
C2_CycleTermination ==
    /\ <>(pc = "scanned")
    /\ [](TopReturned /\ recalculate => ret.value = Clamp(PathSum(TopRoot, {}, 1)))

\* R holds a, C and a link back to R; C holds d and a link back to R.
C2_Witness ==
    /\ TopReturned
    /\ recalculate
    /\ ~ignore_symlinks
    /\ ret.obj = "R"
    /\ fs.entries["R"] = <<Link("a"), Link("C"), Symlink("R")>>
    /\ fs.entries["C"] = <<Link("d"), Symlink("R")>>
    /\ ret.value = U64(150)

\* C3: a traversal logs exactly one cycle warning for each entry it meets
\* that leads back to the directory holding it or to an ancestor of it.
C3_OneWarningPerCyclicEdge ==
    TopReturned /\ top_idx = 2 /\ recalculate
        => CycleWarnings = BackEdges(TopRoot, {}, 1)

\* The directory the last return was for has a record under its key.
RetKey == CacheKeyOf[<<Inode(ret.obj), Device(ret.obj)>>]

RetIsDir == ret.obj \in Dirs /\ ret.how \in {"hit", "unlistable", "computed"}

\* C4 as stated: a record under the directory's key is used only if its
\* volume id is the live one; otherwise the directory is recomputed and the
\* record overwritten with the fresh total.  So after any return for a
\* directory, without -rc, a record under its key carries the live volume id.
C4_AlwaysOverwritten ==
    RetIsDir /\ ~recalculate /\ RetKey \in DOMAIN cache
        => cache[RetKey].device_id = Device(ret.obj)

\* A call is about to run on a directory whose key holds a record of
\* another volume.
C4_Mismatch ==
    /\ pc = "call"
    /\ callee.is_directory
    /\ <<callee.inode, get_device_id(callee)>> \notin visited_inodes
    /\ ~recalculate
    /\ get_cache_key(callee) \in DOMAIN cache
    /\ cache[get_cache_key(callee)].device_id # get_device_id(callee)

\* C4 as amended: a hit only ever uses a record of the live volume; a record
\* of another volume is ignored, and the directory, if it can be listed, is
\* listed anew and its record overwritten with the fresh total; if it cannot
\* be listed, 0 is returned and the record stays.
C4_VolumeInvalidation ==
    /\ [](ret.how = "hit" =>
            /\ ~recalculate
            /\ RetKey \in DOMAIN cache
            /\ cache[RetKey].device_id = Device(ret.obj))
    /\ [](ret.how = "computed" =>
            /\ RetKey \in DOMAIN cache
            /\ cache[RetKey] =
                 CacheEntry(ret.value, Inode(ret.obj), Device(ret.obj), "Bytes"))
    /\ [][C4_Mismatch =>
            IF callee.obj \in fs.unlistable
            THEN ret'.how = "unlistable" /\ cache' = cache
            ELSE /\ pc' = "loop"
                 /\ Len(stack') = Len(stack) + 1
                 /\ Top(stack') = [self |-> callee, idx |-> 1,
                                   total_size |-> u64_ZERO, error_count |-> 0]]_vars

\* C was recomputed although a record of another volume was under its key.
C4_Witness ==
    /\ cache_loaded = CacheInsert(EmptyCache, SeedKey,
                                  CacheEntry(U64(7), Inode("C"), U64(9), "Bytes"))
    /\ ~recalculate
    /\ ret.obj = "C"
    /\ ret.how = "computed"
    /\ cache[RetKey].device_id = Device("C")
    /\ cache[RetKey].size = ret.value

\* The store holding the first k - 1 records of the first written file.
RecordsBefore(k) ==
    [key \in {saved[1].order[i] : i \in 1..(k - 1)} |-> saved[1].cache[key]]

\* The length of what a save wrote.
EncodedLen(s) == Len(WriteAll(s.cache, s.order, 1)) + s.more * RecordLen(64)

\* The i-th save and the next one are the two ends of a round trip: the
\* store saved, loaded from an undamaged file, and saved again.
SameStore(i) ==
    /\ saved[i + 1].cache = saved[i].cache
    /\ saved[i + 1].more = saved[i].more

\* The file holds exactly the records of the store s, in the order of the
\* last save.
FileHolds(s) ==
    /\ file.data = WriteAll(s.cache, saved[Len(saved)].order, 1)
    /\ file.rest = s.more

\* C5 as stated: every store comes back from save, load, save with each of
\* its records unchanged and none added.
C5_RoundTrip ==
    damage.kind = "none" =>
        /\ \A i \in 1..(Len(saved) - 1) : SameStore(i)
        /\ Len(saved) >= 2 => FileHolds(saved[1])

\* C5: every store whose written form is at most 100 MiB long comes back
\* from save, load, save with each of its records unchanged (key, size,
\* unit, device id, inode) and none added.
C5_RoundTripUnderCeiling ==
    damage.kind = "none" =>
        /\ \A i \in 1..(Len(saved) - 1) :
              EncodedLen(saved[i]) <= 100 * 1024 * 1024 => SameStore(i)
        /\ Len(saved) >= 2 /\ EncodedLen(saved[1]) <= 100 * 1024 * 1024
              => FileHolds(saved[1])

\* Three records and a million more, written in one order and then another.
C5_Witness ==
    /\ Len(saved) = 2
    /\ damage.kind = "none"
    /\ DOMAIN saved[1].cache = {SeedKey, KeyE, KeyA}
    /\ saved[1].cache[KeyE].size_unit = "Tebibytes"
    /\ saved[1].more = ManyRecords
    /\ saved[2].order # saved[1].order
    /\ SameStore(1)
    /\ FileHolds(saved[1])

\* The load of the first written file has returned.
FirstLoaded == pc = "loaded" /\ Len(saved) = 1

\* C6: a file cut strictly inside its k-th record loads as the k - 1
\* records before it, with at least one corruption counted.
C6_TruncationContained ==
    FirstLoaded /\ damage.kind = "truncate" =>
        \A k \in 1..Len(saved[1].order) :
            Offset(k) < damage.value /\ damage.value < Offset(k + 1)
                => cache = RecordsBefore(k) /\ corrupted_entries >= 1

\* C7: a key that is not valid text counts as one corruption and ends the
\* parse: the store is the records before it.
C7_InvalidKeyAborts ==
    FirstLoaded /\ damage.kind = "bad_key" =>
        /\ corrupted_entries = 1
        /\ cache = RecordsBefore(damage.record)

\* The loop is about to read a key length of 0 or of more than 4096.
AtBadKeyLen ==
    /\ pc = "loading"
    /\ ~(pos = Len(file.data) /\ file.rest > 0)
    /\ ReadOk(pos, 2)
    /\ LET key_len == u16_from_le_bytes(ReadAt(pos, 2))
       IN  key_len = 0 \/ key_len > 4096

\* C8: a key length of 0 or of more than 4096 adds exactly one to the
\* corruption counter and ends the parse with the records read so far; a
\* file damaged only so loads as the records before the damaged one, with
\* one corruption counted and nothing read after the length.
C8_KeyLengthOutOfRange ==
    /\ [][AtBadKeyLen =>
            /\ corrupted_entries' = corrupted_entries + 1
            /\ pc' = "loaded"
            /\ cache' = cache
            /\ pos' = pos + 2]_vars
    /\ [](FirstLoaded /\ damage.kind = "key_len" =>
            /\ corrupted_entries = 1
            /\ cache = RecordsBefore(damage.record)
            /\ pos = Offset(damage.record) + 2)

\* The first of three records declares a key of 9000 bytes.
C8_Witness ==
    /\ FirstLoaded
    /\ damage = [kind |-> "key_len", record |-> 1, value |-> 9000]
    /\ Cardinality(DOMAIN saved[1].cache) = 3
    /\ SubSeq(file.data, 1, 2) = <<40, 35>>
    /\ cache = EmptyCache
    /\ corrupted_entries = 1

\* The entry the loop of the innermost call is at, when it is a file whose
\* length is added.
AtFileAdd ==
    /\ pc = "loop"
    /\ Top(stack).idx <= Len(fs.entries[Top(stack).self.obj])
    /\ LET e == fs.entries[Top(stack).self.obj][Top(stack).idx]
           m == Metadata(fs, e, ignore_symlinks)
       IN  /\ e.kind # "err_entry"
           /\ m.ok
           /\ ~m.is_dir
           /\ ~(ignore_symlinks /\ m.is_symlink)

AddedLen ==
    Metadata(fs, fs.entries[Top(stack).self.obj][Top(stack).idx], ignore_symlinks).len

\* The step is a return to a calling directory.
ReturnsToParent ==
    \/ pc = "call" /\ pc' = "loop" /\ Len(stack') = Len(stack) /\ Len(stack) > 0
    \/ pc = "loop" /\ Len(stack') = Len(stack) - 1 /\ Len(stack') > 0

\* old + added gives new: never less than old, u64::MAX when the sum does
\* not fit, and the process goes on.
SaturatedAdd(old, added, new) ==
    /\ AddCarry(old, added)[5] > 0 => new = u64_MAX
    /\ LessEq(old, new)
    /\ pc' \notin {"panic", "stack_overflow"}

\* C9: when adding a file's length or a subdirectory's total to a running
\* total would exceed u64::MAX the total becomes u64::MAX; it never gets
\* smaller and the traversal does not abort.
C9_Saturation ==
    /\ [][AtFileAdd =>
            SaturatedAdd(Top(stack).total_size, AddedLen, Top(stack').total_size)]_vars
    /\ [][ReturnsToParent =>
            SaturatedAdd(stack[Len(stack')].total_size, ret'.value,
                         Top(stack').total_size)]_vars

\* R holds a of u64::MAX - 50 bytes and b of 200.
C9_Witness ==
    /\ fs.len["a"] = HugeLen
    /\ fs.entries["R"] = <<Link("a"), Link("b")>>
    /\ ret.obj = "R"
    /\ ret.how = "computed"
    /\ ret.value = u64_MAX

\* load_cache found no usable file: none, an empty one, or one over the
\* ceiling.
NoUsableFile ==
    pc = "loaded" /\ (~file.exists \/ FileLen(file) = 0 \/ FileLen(file) > 100 * 1024 * 1024)

\* C10: with no cache file, an empty one or one of more than 100 MiB,
\* load_cache returns the empty store and reads no record; for the empty
\* file nothing is counted as corrupted and no corruption is warned of.
C10_NoUsableCache ==
    NoUsableFile =>
        /\ cache = EmptyCache
        /\ cache_more = 0
        /\ pos = 0
        /\ corrupted_entries = 0
        /\ FileLen(file) = 0 =>
              \A i \in 1..Len(log) : log[i].kind # "corrupted"

\* A file of three records and 1 200 000 more: over 100 MiB.
C10_Witness ==
    /\ pc = "loaded"
    /\ file.exists
    /\ Len(file.data) = RecordLen(64) + RecordLen(2) + RecordLen(1)
    /\ file.rest = TooManyRecords
    /\ cache = EmptyCache
    /\ cache_more = 0
    /\ log = <<Warning("too_large", "")>>

(***************************************************************************)
(* Claims about the cycle guard, the cache records and the failures        *)
(***************************************************************************)
\* The identities of the directories whose call has entered and not yet
\* returned: those of the frames on the stack.
ActiveIdentities ==
    {<<stack[i].self.inode, get_device_id(stack[i].self)>> : i \in 1..Len(stack)}

\* C11: while a top-level traversal runs, visited_inodes is exactly the set
\* of identities of the directories whose call has entered and not yet
\* returned; so a call that returns, by whichever path, leaves the set as
\* it found it, and the top-level call leaves it empty.
C11_GuardBalance ==
    /\ pc \in {"call", "loop"} => visited_inodes = ActiveIdentities
    /\ pc \in {"main", "scanned"} => visited_inodes = {} /\ stack = <<>>

\* R, C and D are being listed, one inside the other.
C11_Witness ==
    /\ pc = "loop"
    /\ Len(stack) = 3
    /\ stack[1].self.obj = "R" /\ stack[2].self.obj = "C" /\ stack[3].self.obj = "D"
    /\ Cardinality(visited_inodes) = 3
    /\ visited_inodes = ActiveIdentities

\* The step is the return of a call that listed its directory.
ComputedReturn == pc = "loop" /\ ret'.how = "computed" /\ Len(stack') = Len(stack) - 1

\* C12: after a directory is computed on a miss the cache holds, under its
\* key, the record of the returned total in bytes with the directory's live
\* device id and inode; the write replaces what was under that key and
\* touches no other key.
C12_RecordAfterCompute ==
    /\ [](ret.how = "computed" =>
            /\ RetKey \in DOMAIN cache
            /\ cache[RetKey].size = ret.value
            /\ cache[RetKey].size_unit = "Bytes"
            /\ cache[RetKey].device_id = Device(ret.obj)
            /\ cache[RetKey].inode = Inode(ret.obj))
    /\ [][ComputedReturn =>
            LET key == CacheKeyOf[<<Inode(ret'.obj), Device(ret'.obj)>>]
            IN  /\ DOMAIN cache' = DOMAIN cache \cup {key}
                /\ \A k \in DOMAIN cache \ {key} : cache'[k] = cache[k]]_vars

\* C, holding d, is recomputed under -rc over a record in kibibytes.
C12_Witness ==
    /\ recalculate
    /\ cache_loaded = CacheInsert(EmptyCache, SeedKey,
                                  CacheEntry(U64(7), U64(12), U64(3), "Kibibytes"))
    /\ fs.entries["C"] = <<Link("d")>>
    /\ ret.obj = "C"
    /\ ret.how = "computed"
    /\ cache[SeedKey] = CacheEntry(U64(50), U64(12), U64(3), "Bytes")

\* A call is about to run, without -rc, on a directory under whose key the
\* cache holds a record of the directory's own volume.
AtHit ==
    /\ pc = "call"
    /\ callee.is_directory
    /\ <<callee.inode, get_device_id(callee)>> \notin visited_inodes
    /\ ~recalculate
    /\ get_cache_key(callee) \in DOMAIN cache
    /\ cache[get_cache_key(callee)].device_id = get_device_id(callee)

\* C13: on a cache hit the call returns the record's scaled value, lists
\* nothing and calls nothing (no frame is pushed, the next step is the
\* caller's), has removed the directory's identity from visited_inodes when
\* it returns, and leaves the cache unchanged.
C13_HitShortCircuit ==
    [][AtHit =>
        LET scaled == ScaledSize(cache[get_cache_key(callee)])
        IN  /\ ~scaled.overflow
            /\ ret'.how = "hit"
            /\ ret'.obj = callee.obj
            /\ ret'.value = scaled.value
            /\ pc' \in {"main", "loop"}
            /\ stack' = IF stack = <<>> THEN stack
                        ELSE [stack EXCEPT
                                ![Len(stack)].total_size = saturating_add(@, scaled.value),
                                ![Len(stack)].idx = @ + 1]
            /\ visited_inodes' = visited_inodes
            /\ <<callee.inode, get_device_id(callee)>> \notin visited_inodes'
            /\ log' = log
            /\ cache' = cache]_vars

\* The directories being listed when the stack is stk.
StackObjs(stk) == {stk[i].self.obj : i \in 1..Len(stk)}

\* C14: under -rc no call reads the cache: none returns by a hit, none
\* aborts in the hit's multiplication, and every call that listed its
\* directory returns, and writes as its record, the sum that the filesystem
\* and the directories above it determine, whatever the cache held.
C14_ForcedIgnoresCache ==
    /\ [](recalculate => ret.how # "hit" /\ pc # "panic")
    /\ [][recalculate /\ ComputedReturn =>
            LET total == Clamp(PathSum(ret'.obj, StackObjs(stack'), 1))
            IN  /\ ret'.value = total
                /\ cache'[CacheKeyOf[<<Inode(ret'.obj), Device(ret'.obj)>>]] =
                      CacheEntry(total, Inode(ret'.obj), Device(ret'.obj), "Bytes")]_vars
    /\ [](recalculate /\ TopReturned /\ ret.how = "unlistable" => ret.value = u64_ZERO)

\* Under -rc C, holding d, is computed as 50 although the cache held a
\* record of 7 bytes of the same volume for it.
C14_Witness ==
    /\ recalculate
    /\ cache_loaded = CacheInsert(EmptyCache, SeedKey,
                                  CacheEntry(U64(7), U64(12), U64(3), "Bytes"))
    /\ fs.entries["C"] = <<Link("d")>>
    /\ ret.obj = "C"
    /\ ret.how = "computed"
    /\ ret.value = U64(50)

\* The entry fails: it cannot be read, or its metadata, or its FileInfo.
Failing(e) ==
    \/ e.kind \in {"err_entry", "err_new"}
    \/ ~Metadata(fs, e, ignore_symlinks).ok

\* How many of the first n entries of directory o fail.
Failures(o, n) ==
    Cardinality({i \in 1..n : i <= Len(fs.entries[o]) /\ Failing(fs.entries[o][i])})

\* The innermost call is at a failing entry, or past its last entry.
AtFailingEntry ==
    /\ pc = "loop"
    /\ Top(stack).idx <= Len(fs.entries[Top(stack).self.obj])
    /\ Failing(fs.entries[Top(stack).self.obj][Top(stack).idx])

AtLoopEnd ==
    /\ pc = "loop"
    /\ Top(stack).idx > Len(fs.entries[Top(stack).self.obj])

\* The detailed warnings and the rollups logged for directory o.
DetailedAt(o) ==
    SelectSeq(log, LAMBDA w : w.at = o /\ w.kind \in {"entry", "metadata", "file_info"})

RollupsAt(o) == SelectSeq(log, LAMBDA w : w.at = o /\ w.kind = "rollup")

Min(a, b) == IF a <= b THEN a ELSE b

\* C15: a failing entry adds nothing to the total and the loop goes on to
\* the next entry; it is warned of in detail while it is among the first
\* five failures of the directory; the count kept is the number of failing
\* entries met; after the last entry one rollup reports the failures beyond
\* five, if there are any.  So a directory listed once with n failures has
\* min(n, 5) detailed warnings and, exactly when n > 5, one rollup of n - 5.
C15_EntryFailures ==
    /\ [][AtFailingEntry =>
            LET f == Top(stack)
                g == Top(stack')
            IN  /\ pc' = "loop"
                /\ Len(stack') = Len(stack)
                /\ g = [f EXCEPT !.idx = @ + 1, !.error_count = @ + 1]
                /\ IF f.error_count < 5
                   THEN /\ Len(log') = Len(log) + 1
                        /\ SubSeq(log', 1, Len(log)) = log
                        /\ log'[Len(log')].at = f.self.obj
                        /\ log'[Len(log')].kind \in {"entry", "metadata", "file_info"}
                   ELSE log' = log]_vars
    /\ [][AtLoopEnd =>
            LET f == Top(stack)
            IN  log' = IF f.error_count > 5
                       THEN Append(log, Rollup(f.self.obj, f.error_count - 5))
                       ELSE log]_vars
    /\ [](pc = "loop" =>
            \A i \in 1..Len(stack) :
                stack[i].error_count = Failures(stack[i].self.obj, stack[i].idx - 1))
    /\ [](TopReturned /\ top_idx = 2 /\ ret.how = "computed" =>
            LET n == Failures("R", Len(fs.entries["R"]))
            IN  /\ Len(DetailedAt("R")) = Min(n, 5)
                /\ RollupsAt("R") = IF n > 5 THEN <<Rollup("R", n - 5)>> ELSE <<>>)

\* R holds a, seven failing entries, b and C: five detailed warnings, one
\* rollup of 2, and 100 + 200 + 50 bytes.
C15_Witness ==
    /\ TopReturned
    /\ top_idx = 2
    /\ recalculate
    /\ ret.how = "computed"
    /\ Len(fs.entries["R"]) = 10
    /\ fs.entries["R"][10] = Link("C")
    /\ Failures("R", 10) = 7
    /\ Len(DetailedAt("R")) = 5
    /\ RollupsAt("R") = <<Rollup("R", 2)>>
    /\ ret.value = U64(350)

\* The call about to be made lists its directory, and the listing fails.
AtListingFailure ==
    /\ pc = "call"
    /\ callee.is_directory
    /\ <<callee.inode, get_device_id(callee)>> \notin visited_inodes
    /\ ~(/\ ~recalculate
         /\ get_cache_key(callee) \in DOMAIN cache
         /\ cache[get_cache_key(callee)].device_id = get_device_id(callee))
    /\ callee.obj \in fs.unlistable

WarningsAt(o, kind) == SelectSeq(log, LAMBDA w : w.at = o /\ w.kind = kind)

\* C16: when listing the directory fails the call returns 0 as a value, logs
\* one warning, leaves the directory's identity out of visited_inodes, and
\* the caller goes on: a parent directory to its next entry with its total
\* as it was, main to its next top-level entry.
C16_ListingFailure ==
    [][AtListingFailure =>
        /\ ret'.obj = callee.obj
        /\ ret'.how = "unlistable"
        /\ ret'.value = u64_ZERO
        /\ log' = Append(log, Warning("read_dir", callee.obj))
        /\ visited_inodes' = visited_inodes
        /\ <<callee.inode, get_device_id(callee)>> \notin visited_inodes'
        /\ cache' = cache
        /\ IF stack = <<>>
           THEN /\ pc' = "main"
                /\ stack' = stack
                /\ top_idx' = top_idx + 1
                /\ files' = Append(files, callee)
           ELSE /\ pc' = "loop"
                /\ stack' = [stack EXCEPT ![Len(stack)].idx = @ + 1]
                /\ files' = files]_vars

\* R holds a, C and then a link to D, which holds b; C cannot be listed:
\* R's total is 100 + 0 + 200, one warning names C, and D, after C, has
\* been listed.
C16_Witness ==
    /\ fs.unlistable = {"C"}
    /\ fs.entries["R"] = <<Link("a"), Link("C"), Symlink("D")>>
    /\ fs.entries["D"] = <<Link("b")>>
    /\ ~ignore_symlinks
    /\ recalculate
    /\ TopReturned
    /\ top_idx = 2
    /\ ret.how = "computed"
    /\ ret.value = U64(300)
    /\ WarningsAt("C", "read_dir") = <<Warning("read_dir", "C")>>
    /\ visited_inodes = {}

\* The loop of the innermost call is at an entry that leads to a directory
\* which is neither the directory being listed nor one of those above it.
AtOffPathDir ==
    /\ pc = "loop"
    /\ Top(stack).idx <= Len(fs.entries[Top(stack).self.obj])
    /\ LET e == fs.entries[Top(stack).self.obj][Top(stack).idx]
       IN  /\ e.kind \in {"link", "symlink"}
           /\ Metadata(fs, e, ignore_symlinks).ok
           /\ Metadata(fs, e, ignore_symlinks).is_dir
           /\ Metadata(fs, e, ignore_symlinks).obj \notin StackObjs(stack)

\* A top-level call has returned for a cycle-free graph in which some
\* directory is reached along two paths, with no record of an earlier run.
C17_Case ==
    /\ TopReturned
    /\ recalculate \/ cache_loaded = EmptyCache
    /\ CycleFree(TopRoot)
    /\ LET v == Visits(TopRoot, 1)
       IN  \E i, j \in DOMAIN v : i # j /\ v[i] = v[j] /\ v[i] \in Dirs

\* C17: an entry leading to a directory that is not on the path of the
\* listing is never skipped: the call on it is made, whether or not the same
\* directory was resolved before along another path, and the call is never
\* answered as a cycle.  In a cycle-free graph where a directory is reached
\* along two paths, the total counts the directory once for each path.
C17_Reappearance ==
    /\ [][AtOffPathDir =>
            /\ pc' = "call"
            /\ callee'.obj = fs.entries[Top(stack).self.obj][Top(stack).idx].target
            /\ stack' = stack
            /\ log' = log]_vars
    /\ [][pc = "call" /\ callee.obj \notin StackObjs(stack) =>
            /\ ret'.how # "cycle"
            /\ CycleWarnings' = CycleWarnings
            /\ pc' = "loop" /\ Len(stack') = Len(stack) =>
                  Top(stack').total_size = saturating_add(Top(stack).total_size, ret'.value)]_vars
    /\ [](C17_Case => ret.value = Clamp(PathSum(TopRoot, {}, 1)) /\ CycleWarnings = 0)

\* R holds a, C and a link to D; C holds d and D; D holds b.  D is listed
\* under C and again under R: 100 + (50 + 200) + 200.
C17_Witness ==
    /\ C17_Case
    /\ recalculate
    /\ ~ignore_symlinks
    /\ fs.entries["R"] = <<Link("a"), Link("C"), Symlink("D")>>
    /\ fs.entries["C"] = <<Link("d"), Link("D")>>
    /\ fs.entries["D"] = <<Link("b")>>
    /\ fs.len["a"] = U64(100)
    /\ ret.obj = "R"
    /\ ret.how = "computed"
    /\ ret.value = U64(550)

(***************************************************************************)
(* Claims about save_cache on any store                                    *)
(***************************************************************************)
\* The bytes the first n keys of `order` take in the file, a key of more
\* than 65535 bytes taking none.
RECURSIVE WrittenLen(_, _)
WrittenLen(order, n) ==
    IF n = 0 THEN 0
    ELSE WrittenLen(order, n - 1)
            + (IF Len(order[n]) > 65535 THEN 0 ELSE RecordLen(Len(order[n])))

\* The step is a run of save_cache.
Saves == Len(saved') = Len(saved) + 1

\* C18: save_cache writes nothing for an entry whose key is longer than
\* 65535 bytes and warns of it, writes every other entry in full, one after
\* the other, and returns; the file then loads as the other entries.
C18_EncodeSkip ==
    /\ [][Saves =>
            LET s == saved'[Len(saved')]
                n == Len(s.order)
            IN  /\ s.cache = cache
                /\ pc' = "saved"
                /\ file'.exists
                /\ Len(file'.data) = WrittenLen(s.order, n)
                /\ \A i \in 1..n :
                      Len(s.order[i]) <= 65535 =>
                          SubSeq(file'.data, WrittenLen(s.order, i - 1) + 1,
                                 WrittenLen(s.order, i))
                              = WriteEntry(s.order[i], cache[s.order[i]])
                /\ Len(log') - Len(log)
                      = Cardinality({k \in DOMAIN cache : Len(k) > 65535})]_vars
    /\ [](pc = "loaded" /\ Len(saved) >= 1 =>
            LET c == saved[Len(saved)].cache
            IN  cache = [k \in {x \in DOMAIN c : Len(x) <= 65535} |-> c[k]])

\* A store of three entries, the second written of which has the long key:
\* the file holds the two others, and one warning is logged.
C18_Witness ==
    /\ pc = "saved"
    /\ Len(saved) = 1
    /\ DOMAIN saved[1].cache = {SeedKey, LongKey, KeyA}
    /\ saved[1].order[2] = LongKey
    /\ file.exists
    /\ Len(file.data) = RecordLen(64) + RecordLen(1)
    /\ log = <<Warning("key_too_long", "")>>

(***************************************************************************)
(* Claims about one run of main                                            *)
(***************************************************************************)
\* A call of calculate_directory_size is in progress.
InResolve == pc \in {"call", "loop"}

\* C19: load_cache is called once, as the first thing the run does, and
\* every call of calculate_directory_size comes after it; save_cache is
\* called at most once, when main's loop has gone through every top-level
\* entry, and writes the whole store; nothing is resolved after the write,
\* so no write lies between two calls.
C19_RunOrdering ==
    /\ [](loads <= 1 /\ Len(saved) <= 1)
    /\ [](InResolve => loads = 1 /\ saved = <<>>)
    /\ [][loads' # loads =>
            /\ loads = 0
            /\ pc = "start"
            /\ top_idx = 1 /\ files = <<>> /\ ret = NoReturn]_vars
    /\ [][Saves =>
            /\ calculate_dir_sizes
            /\ stack = <<>>
            /\ top_idx > Len(fs.top)
            /\ Len(files) = Len(fs.top)
            /\ cache' = cache
            /\ file' = [exists |-> TRUE,
                        data |-> WriteAll(cache, saved'[1].order, 1),
                        rest |-> 0]
            /\ {saved'[1].order[i] : i \in 1..Len(saved'[1].order)} = DOMAIN cache]_vars
    /\ [](saved # <<>> => pc \in {"saved", "done"})
    /\ [][saved # <<>> =>
            UNCHANGED <<travVars, cache, cache_more, file, saved, loads>>]_vars

\* A run that found a record for C in the cache file, resolved R and C, and
\* wrote the store with the records it computed.
C19_Witness ==
    /\ pc = "saved"
    /\ loads = 1
    /\ Len(saved) = 1
    /\ Len(files) = 2
    /\ cache_loaded = CacheInsert(EmptyCache, SeedKey,
                                  CacheEntry(U64(7), U64(12), U64(3), "Bytes"))
    /\ recalculate
    /\ Cardinality(DOMAIN cache) = 3
    /\ file.data = WriteAll(cache, saved[1].order, 1)
    /\ Len(file.data) = 3 * RecordLen(64)

\* The identities of the top-level entries main has gone through.
ResolvedRoots == {<<files[i].inode, get_device_id(files[i])>> : i \in 1..Len(files)}

\* C20: main starts the call on each top-level directory with an empty
\* visited_inodes, and while that call runs the set holds the identity of
\* an earlier top-level entry only if that directory is being listed again
\* on the current path.
C20_FreshVisitedSet ==
    /\ [][pc = "main" /\ pc' = "call" =>
            /\ visited_inodes' = {}
            /\ stack' = <<>>
            /\ callee'.obj = fs.top[top_idx]]_vars
    /\ [](pc = "call" /\ stack = <<>> => visited_inodes = {})
    /\ [](pc = "loop" =>
            \A id \in visited_inodes \cap ResolvedRoots :
                \E i \in 1..Len(stack) :
                    id = <<stack[i].self.inode, get_device_id(stack[i].self)>>)

\* R has been resolved, its identity inserted and removed; the call on C,
\* the second top-level entry, is about to start with the empty set.
C20_Witness ==
    /\ pc = "call"
    /\ stack = <<>>
    /\ top_idx = 2
    /\ callee.obj = "C"
    /\ Len(files) = 1
    /\ files[1].obj = "R"
    /\ ret.obj = "R"
    /\ ret.how = "computed"
    /\ visited_inodes = {}

\* C21: when main returns an error (the current directory cannot be listed,
\* a top-level entry cannot be read, or save_cache fails) no line of the
\* listing has been printed and none is printed afterwards; the listing is
\* printed only when main's loop has gone through every top-level entry
\* and, if directory sizes were asked for, save_cache has written the store.
C21_FatalBeforeListing ==
    /\ [](pc = "error" => listing = <<>>)
    /\ [][pc = "error" => UNCHANGED vars]_vars
    /\ [][listing' # listing =>
            /\ listing = <<>>
            /\ pc \in {"saved", "exit"}
            /\ top_idx > Len(fs.top)
            /\ Len(files) = Len(fs.top)
            /\ listing'[1].kind = "header"
            /\ Len(listing') = Len(files) + 2
            /\ IF calculate_dir_sizes
               THEN Len(saved) = 1 /\ file.data = WriteAll(cache, saved[1].order, 1)
               ELSE saved = <<>>]_vars
    /\ [](pc # "done" => listing = <<>>)

\* The store has three records; a write fails half way through the file;
\* main ends with the error and has printed nothing.
C21_Witness ==
    /\ pc = "error"
    /\ listing = <<>>
    /\ Len(files) = 2
    /\ Cardinality(DOMAIN cache) = 3
    /\ file.exists
    /\ Len(file.data) = (3 * RecordLen(64)) \div 2
    /\ saved = <<>>

(***************************************************************************)
(* Claims about calculate_directory_size on any FileInfo                   *)
(***************************************************************************)
\* C22: called on an entry that is not a directory, the function returns
\* the entry's byte length and changes nothing: not the cache, not
\* visited_inodes, not the entry's size field, and it logs nothing.
C22_NonDirectory ==
    [][pc = "call" /\ ~callee.is_directory =>
        /\ ret'.obj = callee.obj
        /\ ret'.how = "file"
        /\ ret'.value = fs.len[callee.obj]
        /\ ret'.size = callee.size
        /\ cache' = cache
        /\ visited_inodes' = visited_inodes
        /\ log' = log
        /\ stack = <<>> => files' = Append(files, callee) /\ pc' = "main"]_vars

\* The call on b, 200 bytes long, made with a cache that holds a record and
\* a visited set that holds identities.
C22_Witness ==
    /\ ret.obj = "b"
    /\ ret.how = "file"
    /\ ret.value = U64(200)
    /\ top_idx = 2
    /\ files = <<FileInfo_new(fs, "b")>>
    /\ cache = cache_loaded
    /\ cache # EmptyCache
    /\ Cardinality(visited_inodes) = 3

\* C23: called on a directory whose identity is already in visited_inodes,
\* the function returns 0 and logs one cycle warning; visited_inodes, the
\* identity still in it, and the cache are as they were, and nothing is
\* listed.
C23_VisitedOnEntry ==
    [][pc = "call" /\ callee.is_directory
         /\ <<callee.inode, get_device_id(callee)>> \in visited_inodes =>
        /\ ret'.obj = callee.obj
        /\ ret'.how = "cycle"
        /\ ret'.value = u64_ZERO
        /\ ret'.size = callee.size
        /\ log' = Append(log, Warning("cycle", callee.obj))
        /\ visited_inodes' = visited_inodes
        /\ cache' = cache
        /\ Len(stack') <= Len(stack)]_vars

\* The call on C made with C's identity in the set, as an ancestor would
\* have left it, and a record for C in the cache.
C23_Witness ==
    /\ ret.obj = "C"
    /\ ret.how = "cycle"
    /\ ret.value = u64_ZERO
    /\ top_idx = 2
    /\ pc = "main"
    /\ log = <<Warning("cycle", "C")>>
    /\ visited_inodes = {fs.id["C"]}
    /\ ~recalculate
    /\ cache = CacheInsert(EmptyCache, SeedKey,
                           CacheEntry(U64(7), U64(12), U64(3), "Bytes"))

\* The loop of the innermost call is at an entry whose metadata says it is
\* a directory; the identity the metadata gives; the two tests of the loop.
AtDirChild ==
    /\ pc = "loop"
    /\ Top(stack).idx <= Len(fs.entries[Top(stack).self.obj])
    /\ LET e == fs.entries[Top(stack).self.obj][Top(stack).idx]
       IN  /\ e.kind \in {"link", "symlink", "err_new"}
           /\ Metadata(fs, e, ignore_symlinks).ok
           /\ Metadata(fs, e, ignore_symlinks).is_dir

ChildEntry == fs.entries[Top(stack).self.obj][Top(stack).idx]

ChildKey ==
    <<Metadata(fs, ChildEntry, ignore_symlinks).ino,
      Metadata(fs, ChildEntry, ignore_symlinks).dev>>

ChildPasses ==
    /\ ChildKey # <<Top(stack).self.inode, get_device_id(Top(stack).self)>>
    /\ ChildKey \notin visited_inodes

\* The step makes the recursive call on the child.
Recurses == pc' = "call" /\ callee'.obj = ChildEntry.target /\ stack' = stack

\* The step goes on to the next entry with the total as it was.
AddsNothing ==
    /\ pc' = "loop"
    /\ Len(stack') = Len(stack)
    /\ Top(stack').idx = Top(stack).idx + 1
    /\ Top(stack').total_size = Top(stack).total_size

\* C24 as stated: a child directory is recursed into if and only if its
\* identity differs from the listed directory's and is not in
\* visited_inodes; one failing either test adds nothing and is not called.
C24_RecurseIff ==
    [][AtDirChild =>
        /\ Recurses <=> ChildPasses
        /\ ~ChildPasses => AddsNothing /\ log' = log]_vars

\* C24 as amended: a child directory is recursed into if and only if its
\* identity passes both tests and FileInfo::new succeeds on its path; a
\* child failing either test adds nothing, is not called and is not
\* logged; a child whose FileInfo cannot be built adds nothing, is not
\* called, and is counted as a failure.
C24_RecurseIffBuilt ==
    [][AtDirChild =>
        /\ Recurses <=> ChildPasses /\ ChildEntry.kind # "err_new"
        /\ ~ChildPasses =>
              /\ AddsNothing
              /\ log' = log
              /\ Top(stack').error_count = Top(stack).error_count
        /\ ChildPasses /\ ChildEntry.kind = "err_new" =>
              /\ AddsNothing
              /\ Top(stack').error_count = Top(stack).error_count + 1]_vars

\* C, listed under R, holds d and a link back to R; the link has been
\* passed over: C's total is 50 and its loop is at its end.
C24_Witness ==
    /\ pc = "loop"
    /\ ~ignore_symlinks
    /\ Len(stack) = 2
    /\ stack[1].self.obj = "R"
    /\ stack[2].self.obj = "C"
    /\ fs.entries["C"] = <<Link("d"), Symlink("R")>>
    /\ stack[2].idx = 3
    /\ stack[2].total_size = U64(50)
    /\ stack[2].error_count = 0
    /\ log = <<>>

(***************************************************************************)
(* Claims about the scaling of a cache hit                                 *)
(***************************************************************************)
\* A natural number as its 16-bit limbs, lowest first, times a factor of at
\* most 1024: one limb longer, nothing lost.
RECURSIVE MulLimbs(_, _, _, _)
MulLimbs(n, c, i, carry) ==
    IF i > Len(n) THEN <<carry>>
    ELSE <<(n[i] * c + carry) % LimbBase>>
            \o MulLimbs(n, c, i + 1, (n[i] * c + carry) \div LimbBase)

RECURSIVE ExactPow(_, _, _)
ExactPow(n, c, k) == IF k = 0 THEN n ELSE ExactPow(MulLimbs(n, c, 1, 0), c, k - 1)

\* The scale factor of a unit, as base and exponent: powers of 1000 for
\* bytes, KB, MB, GB, TB and powers of 1024 for KiB, MiB, GiB, TiB.
UnitBase(u) ==
    IF u \in {"Kibibytes", "Mebibytes", "Gibibytes", "Tebibytes"} THEN 1024 ELSE 1000

UnitExp(u) ==
    CASE u = "Bytes" -> 0
      [] u \in {"Kilobytes", "Kibibytes"} -> 1
      [] u \in {"Megabytes", "Mebibytes"} -> 2
      [] u \in {"Gigabytes", "Gibibytes"} -> 3
      [] u \in {"Terabytes", "Tebibytes"} -> 4

\* The stored magnitude of the record about to be hit times its unit's
\* factor, and whether that is the 64-bit value v.
HitRecord == cache[get_cache_key(callee)]

ExactScaled == ExactPow(HitRecord.size, UnitBase(HitRecord.size_unit),
                        UnitExp(HitRecord.size_unit))

IsValue(n, v) ==
    /\ \A i \in 1..4 : n[i] = v[i]
    /\ \A i \in 5..Len(n) : n[i] = 0

\* C25: on a cache hit the value returned is the stored magnitude times the
\* scale factor of the stored unit.
C25_ScaledByUnit ==
    [][AtHit => ret'.how = "hit" /\ IsValue(ExactScaled, ret'.value)]_vars

\* The same for the records whose product is below 2^64.
HitScaledWhenFits ==
    [][AtHit /\ (\A i \in 5..Len(ExactScaled) : ExactScaled[i] = 0) =>
          ret'.how = "hit" /\ IsValue(ExactScaled, ret'.value)]_vars

(***************************************************************************)
(* Claims about symbolic links                                             *)
(***************************************************************************)
\* The loop of the innermost call is at an entry that is a symbolic link.
AtSymlink ==
    /\ pc = "loop"
    /\ Top(stack).idx <= Len(fs.entries[Top(stack).self.obj])
    /\ ChildEntry.kind = "symlink"

\* The step that the loop takes at a hard link to object o.
AsTarget(o) ==
    IF o \in Files
    THEN /\ pc' = "loop"
         /\ stack' = [stack EXCEPT
                        ![Len(stack)].total_size = saturating_add(@, fs.len[o]),
                        ![Len(stack)].idx = @ + 1]
         /\ log' = log
    ELSE IF fs.id[o] \in visited_inodes
    THEN AddsNothing /\ log' = log
    ELSE /\ pc' = "call"
         /\ callee' = FileInfo_new(fs, o)
         /\ stack' = stack

\* C26: under ignore-symlinks a child that is a symbolic link, to a file, to
\* a directory or to nothing, adds 0, is not called and is not a failure,
\* and no directory being listed was reached through one; without the flag
\* a symbolic link with a target is treated as its target is: a file's
\* length is added, a directory is recursed into or passed over by the
\* tests of the loop.
C26_SymlinksIgnored ==
    /\ [][AtSymlink /\ ignore_symlinks =>
            /\ AddsNothing
            /\ Top(stack').error_count = Top(stack).error_count
            /\ log' = log]_vars
    /\ [](ignore_symlinks =>
            \A i \in 2..Len(stack) :
                LET e == fs.entries[stack[i - 1].self.obj][stack[i - 1].idx]
                IN  e.kind = "link" /\ e.target = stack[i].self.obj)
    /\ [][AtSymlink /\ ~ignore_symlinks /\ ChildEntry.target # "" =>
            AsTarget(ChildEntry.target)]_vars

\* R holds a and symbolic links to b, to D and to nothing: with the flag
\* its total is 100 and nothing is logged.
C26_Witness ==
    /\ ignore_symlinks
    /\ recalculate
    /\ fs.entries["R"] = <<Link("a"), Symlink("b"), Symlink("D"), Symlink("")>>
    /\ TopReturned
    /\ top_idx = 2
    /\ ret.how = "computed"
    /\ ret.value = U64(100)
    /\ log = <<>>

\* The same directory without the flag: 100 + 200 + 200, and the dangling
\* link is one failure.
SymlinksFollowed ==
    /\ ~ignore_symlinks
    /\ recalculate
    /\ fs.entries["R"] = <<Link("a"), Symlink("b"), Symlink("D"), Symlink("")>>
    /\ TopReturned
    /\ top_idx = 2
    /\ ret.value = U64(500)
    /\ log = <<Warning("metadata", "R")>>

(***************************************************************************)
(* Claims about what the cache records                                     *)
(***************************************************************************)
\* C27: the record written when a call on a directory returns holds the
\* value that a call on that directory alone, under -rc and with an empty
\* visited_inodes, returns on the same filesystem; no record of an earlier
\* run is involved.
C27_CacheTransparency ==
    [][ComputedReturn /\ (recalculate \/ cache_loaded = EmptyCache) =>
          cache'[get_cache_key(Top(stack).self)].size
              = Clamp(PathSum(Top(stack).self.obj, {}, 1))]_vars

\* The same for the directories below which no directory leads back to
\* itself.
RecordOfAcyclicIsFresh ==
    [][ComputedReturn /\ (recalculate \/ cache_loaded = EmptyCache)
         /\ CycleFree(Top(stack).self.obj) =>
          cache'[get_cache_key(Top(stack).self)].size
              = Clamp(PathSum(Top(stack).self.obj, {}, 1))]_vars

\* The record under a key is one that calculate_directory_size writes: the
\* key is the digest of the record's own inode and device id.
WrittenForOwnKey(key) ==
    /\ key \in DOMAIN cache
    /\ Sha256Hex(to_string(cache[key].inode) \o to_string(cache[key].device_id)) = key

\* C28: whenever a call returns through the cache hit on a record that
\* calculate_directory_size wrote, the inode and device id in the record
\* are those of the directory the call is on, also when another directory's
\* identity has the same key.
C28_HitSameIdentity ==
    [][(/\ ret'.how = "hit"
        /\ pc = "call"
        /\ WrittenForOwnKey(get_cache_key(callee)))
         => /\ cache[get_cache_key(callee)].inode = callee.inode
            /\ cache[get_cache_key(callee)].device_id = get_device_id(callee)]_vars

\* D was returned from a record written in this run, in a filesystem where
\* the identities of R and C, (1,23) and (12,3), have one key.
C28_Witness ==
    /\ ret.how = "hit"
    /\ ret.obj = "D"
    /\ cache_loaded = EmptyCache
    /\ CacheKeyOf[fs.id["R"]] = CacheKeyOf[fs.id["C"]]
    /\ WrittenForOwnKey(CacheKeyOf[fs.id["D"]])

\* A call on C finds R's record under the key the two share.
SharedKeyHoldsOther ==
    /\ pc = "call"
    /\ callee.obj = "C"
    /\ ~recalculate
    /\ get_cache_key(callee) \in DOMAIN cache
    /\ cache[get_cache_key(callee)].inode = Inode("R")
    /\ Inode("R") # Inode("C")

\* The identities of the directories of the filesystem.
DirIdentities == {fs.id[o] : o \in Dirs}

\* C29: the insert at the end of a call leaves in place, unchanged, every
\* record whose inode and device id are not those of the directory the
\* call is on, and two different identities never have the same key.
C29_DistinctKeys ==
    /\ [](\A i, j \in DirIdentities : i # j => CacheKeyOf[i] # CacheKeyOf[j])
    /\ [][ComputedReturn =>
            \A k \in DOMAIN cache :
                <<cache[k].inode, cache[k].device_id>>
                        # <<Top(stack).self.inode, get_device_id(Top(stack).self)>>
                    => k \in DOMAIN cache' /\ cache'[k] = cache[k]]_vars

\* The insert alone, without the statement about the keys.
InsertKeepsOtherIdentities ==
    [][ComputedReturn =>
            \A k \in DOMAIN cache :
                <<cache[k].inode, cache[k].device_id>>
                        # <<Top(stack).self.inode, get_device_id(Top(stack).self)>>
                    => k \in DOMAIN cache' /\ cache'[k] = cache[k]]_vars

(***************************************************************************)
(* Claims about the arithmetic of the cache hit                            *)
(***************************************************************************)
\* C30: on a cache hit the stored magnitude times the factor of the stored
\* unit is at most u64::MAX, whatever record the cache file gave, so the
\* multiplication does not wrap and the process does not abort in it.
C30_ScalingFits ==
    [][AtHit => /\ \A i \in 5..Len(ExactScaled) : ExactScaled[i] = 0
                /\ ~ScaledSize(HitRecord).overflow
                /\ pc' # "panic"]_vars

(***************************************************************************)
(* Claims about what a call leaves behind                                  *)
(***************************************************************************)
\* C31: after a call on a directory has returned a value, by the cache hit,
\* after the loop, on a failed listing or on the cycle test, the size field
\* of the FileInfo it was called on is that value.
C31_SizeIsReturned ==
    ret.how \in {"hit", "computed", "unlistable", "cycle"} => ret.size = ret.value

\* The same for the two returns that assign self.size.
SizeIsReturnedWhenAssigned ==
    ret.how \in {"hit", "computed"} => ret.size = ret.value

\* A top-level directory that cannot be listed is pushed to files with the
\* st_size of the directory.
UnlistableKeepsStSize ==
    /\ TopReturned
    /\ ret.how = "unlistable"
    /\ ret.value = u64_ZERO
    /\ files[Len(files)].obj = ret.obj
    /\ files[Len(files)].size = fs.len[ret.obj]

(***************************************************************************)
(* Claims about the keys of the store                                      *)
(***************************************************************************)
KeysInRange == \A k \in DOMAIN cache : Len(k) >= 1 /\ Len(k) <= 4096

\* The bytes the first n keys of `order` take in the file when every entry
\* is written.
RECURSIVE FullLen(_, _)
FullLen(order, n) ==
    IF n = 0 THEN 0 ELSE FullLen(order, n - 1) + RecordLen(Len(order[n]))

\* The step is a run of save_cache that skips no entry.
SkipsNothing ==
    LET s == saved'[Len(saved')]
    IN  /\ s.cache = cache
        /\ Len(file'.data) = FullLen(s.order, Len(s.order))
        /\ file'.rest = cache_more
        /\ log' = log

\* The next run's load_cache has returned.
Reloaded == pc = "loaded" /\ loads = 2

SameAsSaved ==
    /\ cache = saved[1].cache
    /\ cache_more = saved[1].more
    /\ corrupted_entries = 0

\* C32 as stated: in every state of a run every key of the store has 1 to
\* 4096 bytes, save_cache skips no entry, and the load of the file it wrote
\* gives the same records with no corrupted entry counted.
C32_KeysInRange ==
    /\ []KeysInRange
    /\ [][Saves => SkipsNothing]_vars
    /\ [](Reloaded => SameAsSaved)

\* C32: in every state of a run every key of the store has 1 to 4096
\* bytes, save_cache skips no entry, and the load of the file it wrote, when
\* that file is at most 100 MiB long, gives the same records with no
\* corrupted entry counted.
C32_KeysInRangeUnderCeiling ==
    /\ []KeysInRange
    /\ [][Saves => SkipsNothing]_vars
    /\ [](Reloaded /\ EncodedLen(saved[1]) <= 100 * 1024 * 1024 => SameAsSaved)

\* The run loaded the records under the 1-byte and the 2-byte key, computed
\* R, C and D, wrote the five and the next run loaded them.
C32_Witness ==
    /\ Reloaded
    /\ SameAsSaved
    /\ {KeyA, KeyE} \subseteq DOMAIN cache
    /\ Cardinality(DOMAIN cache) = 5

\* The run loaded a file just under the ceiling and wrote one over it: the
\* next run loads nothing.
ReloadedOverCeiling ==
    /\ Reloaded
    /\ saved[1].more = NearCeiling - 1
    /\ cache = EmptyCache
    /\ cache_more = 0

(***************************************************************************)
(* Claims about the end of load_cache                                      *)
(***************************************************************************)
\* C33: on every byte stream each iteration of load_cache's loop either
\* leaves the loop or moves the position on by at least 3 bytes, the
\* iteration that finds a key that is not UTF-8 included, the position
\* stays within the file, and load_cache returns.
C33_LoadTerminates ==
    /\ [][pc = "loading" =>
            \/ pc' = "loaded"
            \/ pc' = "loading" /\ pos' >= pos + 3 /\ pos' <= Len(file.data)]_vars
    /\ [][pc = "loading" /\ corrupted_entries' > corrupted_entries /\ pc' = "loading"
            => pos' >= pos + 3]_vars
    /\ (pc = "loading" ~> pc = "loaded")

\* The loop went on after a key that is not UTF-8, read a record after
\* it, and load_cache returned.
C33_Witness ==
    /\ pc = "loaded"
    /\ corrupted_entries >= 1
    /\ cache # EmptyCache
    /\ Len(file.data) = Len(BaseStream)
    /\ file.data[3] = 255

(***************************************************************************)
(* Claims about a directory that cannot be listed                          *)
(***************************************************************************)
\* The record under key k is the same before and after the step: absent, or
\* present and equal.
RecordKept(k) ==
    IF k \in DOMAIN cache THEN k \in DOMAIN cache' /\ cache'[k] = cache[k]
    ELSE k \notin DOMAIN cache'

\* The step is one of the call on o: its entry, or a step of its loop.
InCallOn(o) ==
    \/ pc = "call" /\ callee.obj = o
    \/ pc = "loop" /\ Top(stack).self.obj = o

\* C34: the call on a directory whose listing fails returns with the cache
\* as it was, and no step of a call on such a directory writes, replaces or
\* removes the record under its key: none of size 0 appears, and one that
\* was there stays.
C34_FailedListingKeepsCache ==
    /\ [][AtListingFailure => cache' = cache /\ ret'.how = "unlistable"]_vars
    /\ [][\A o \in fs.unlistable : InCallOn(o) => RecordKept(CacheKeyOf[fs.id[o]])]_vars

\* C cannot be listed and the call on it has returned 0: the record of an
\* earlier run under its key is still there, and R's record has been
\* written in the meantime.
C34_Witness ==
    /\ fs.unlistable = {"C"}
    /\ recalculate
    /\ TopReturned
    /\ top_idx = 3
    /\ ret.obj = "C"
    /\ ret.how = "unlistable"
    /\ SeedKey \in DOMAIN cache
    /\ cache[SeedKey] = CacheEntry(U64(7), U64(12), U64(3), "Bytes")
    /\ CacheKeyOf[fs.id["R"]] \in DOMAIN cache

\* C cannot be listed and no record was under its key: none is there after
\* the call.
NoRecordForUnlistable ==
    /\ fs.unlistable = {"C"}
    /\ TopReturned
    /\ top_idx = 3
    /\ ret.how = "unlistable"
    /\ SeedKey \notin DOMAIN cache

(***************************************************************************)
(* Claims about the Result of a call                                       *)
(***************************************************************************)
\* C35: every return of calculate_directory_size is an Ok: the Err arms of
\* its two call sites never run.  A directory's loop takes the returned
\* value into its total and counts no error for the call, and neither the
\* loop nor main logs that a size could not be calculated, whatever the
\* filesystem (failing entries, directories that cannot be listed, cycles)
\* and whatever the cache holds.
C35_AlwaysOk ==
    /\ [](ret.how \in {"none", "file", "cycle", "hit", "unlistable", "computed"})
    /\ [](\A i \in DOMAIN log : log[i].kind \notin {"calculate", "calculate_top"})
    /\ [][ReturnsToParent =>
            /\ Top(stack').error_count = stack[Len(stack')].error_count
            /\ Top(stack').total_size
                  = saturating_add(stack[Len(stack')].total_size, ret'.value)]_vars

\* R holds a, C, which cannot be listed, and a link to D: the call on C
\* returned Ok(0), R's loop went on to D and R's call returned 300 to main.
C35_Witness ==
    /\ fs.unlistable = {"C"}
    /\ fs.entries["R"] = <<Link("a"), Link("C"), Symlink("D")>>
    /\ fs.entries["D"] = <<Link("b")>>
    /\ ~ignore_symlinks
    /\ recalculate
    /\ pc = "main"
    /\ top_idx = 2
    /\ ret.obj = "R"
    /\ ret.how = "computed"
    /\ ret.value = U64(300)
    /\ \E i \in DOMAIN log : log[i] = Warning("read_dir", "C")

====
